---- MODULE Spec2Model ----
(***************************************************************************)
(* Model of the action lifecycle and outcome learner of meta-ads-agent:    *)
(*   src/automation/actions.py   ActionQueue, ActionExecutor               *)
(*   src/automation/learning.py  ActionLearner                             *)
(*   src/automation/monitor.py   PerformanceMonitor                        *)
(*                                                                         *)
(* Python dictionaries are records; a key a dictionary does not hold is    *)
(* the value NoVal (numbers) or "none" (strings).  Timestamps are          *)
(* integers counting hours.  Ratios and percentages are kept as integers   *)
(* by cross-multiplying, so no comparison of the code is rounded.          *)
(***************************************************************************)
EXTENDS Integers, Sequences, FiniteSets, TLC

\* ---------------------------------------------------------------- bounds
\* number of propose_action calls in one behaviour
MaxProposals == 2
\* number of direct executions in one behaviour
MaxDirect == 1

\* number of record_action_with_baseline calls in one behaviour
MaxLearnRecords == 2
\* number of times the clock advances in one behaviour
MaxTicks == 3

\* ------------------------------------------------------- program constants
\* safety_limits["max_budget_increase_percent"]
max_budget_increase_percent == 20
\* safety_limits["max_daily_budget"]
max_daily_budget == 500000

\* a key that is absent from a dict of numbers
NoVal == -1

VARIABLES
    \* ---- ActionExecutor / ActionQueue
    mode,        \* ActionExecutor.mode, given to the constructor
    pending,     \* ActionQueue.pending: sequence of queue records
    history,     \* ActionQueue.history: sequence of queue and direct records
    nextId,      \* the next fresh action id (uuid4 is modelled as fresh)
    calls,       \* every ad-platform mutation call invoked, in order
    trail,       \* per action id, every status the code has assigned to it
    lastRet,     \* the value (or exception) the last operation ended with
    directCount, \* number of direct executions so far
    \* ---- ActionLearner
    learnPending, \* ActionLearner.pending: records waiting for analysis
    learnings,    \* ActionLearner.learnings: the learned-history store
    learnSeq,     \* the next fresh learning-record id
    now,          \* datetime.now(), in hours
    learnRet,     \* what the last learner operation returned
    ticks,        \* how often the clock has advanced
    \* ---- one call of ActionExecutor.execute, taken alone
    exIn,         \* its inputs: the action and what the collaborators do
    exOut,        \* what it returned and which ad-platform calls it invoked
    \* ---- one call of PerformanceMonitor.check_account
    monIn,        \* its inputs: the collaborators and the active campaigns
    monOut,       \* the account result, and every judgment made on the way
    \* ---- TargetManager
    tmTargets,    \* TargetManager.targets: campaign entries and type defaults
    tmLast,       \* per campaign and per type, what was last set or removed
    tmRet,        \* what the last TargetManager operation returned
    tmOps,        \* number of TargetManager operations so far
    \* ---- one call of ActionLearner._determine_effect
    effIn,        \* its inputs: the action type, the baseline and the current metrics
    effOut,       \* the effect it returned
    \* ---- one call of PerformanceMonitor.check_all_accounts
    allIn,        \* its inputs: the account ids and what check_account does for each
    allOut,       \* its results so far, and the ids check_account was called with
    \* ---- AutomationScheduler
    schedRunning, \* AutomationScheduler._running
    schedThread,  \* AutomationScheduler._thread: the last thread created, 0 for None
    schedLoops,   \* per thread running _run_loop: its position and its local variables
    schedCaller,  \* where the caller of start() and stop() stands
    \* ---- two ActionExecutor instances on one storage directory
    qFiles,       \* pending_actions.json and action_history.json, as last written
    qInst,        \* per instance, whether it is constructed and its ActionQueue.pending and .history
    qLog,         \* every approve and reject that found its record: instance, operation, id
    \* ---- one thread running AutomationScheduler._run_loop, with a clock
    clkNow,       \* datetime.now(), in minutes since midnight of day 0
    clkSchedule,  \* AutomationScheduler.schedule
    clkLoop,      \* the loop's position and its locals now, last_check, last_daily_report
    clkSeen       \* what the loop has done: the days of the last report and skip, the last check that returned

queueVars == <<mode, pending, history, nextId, calls, trail, lastRet, directCount>>
learnVars == <<learnPending, learnings, learnSeq, now, learnRet, ticks>>
execVars == <<exIn, exOut>>
monVars == <<monIn, monOut>>
tmVars == <<tmTargets, tmLast, tmRet, tmOps>>
effVars == <<effIn, effOut>>
allVars == <<allIn, allOut>>
schedVars == <<schedRunning, schedThread, schedLoops, schedCaller>>
sharedVars == <<qFiles, qInst, qLog>>
clockVars == <<clkNow, clkSchedule, clkLoop, clkSeen>>
\* the state outside the executor, its queue and its learner
outsideExecutor == <<exIn, exOut, monIn, monOut, tmVars,
          effVars,
          allVars,
          schedVars,
          sharedVars,
          clockVars>>
\* the state outside the learner
outsideLearner == <<mode, pending, history, nextId, calls, trail, lastRet,
                    directCount, exIn, exOut, monIn, monOut, tmVars,
          effVars,
          allVars,
          schedVars,
          sharedVars,
          clockVars>>
vars == <<mode, pending, history, nextId, calls, trail, lastRet, directCount,
          learnPending, learnings, learnSeq, now, learnRet, ticks, exIn, exOut,
          monIn, monOut, tmVars,
          effVars,
          allVars,
          schedVars,
          sharedVars,
          clockVars>>

\* ------------------------------------------------------------- actions data
Modes == {"notify_only", "approval_required", "auto_execute"}

\* An action dict: type, campaign_id, params.increase_percent,
\* params.new_budget, params.new_status.
Act(t, c, pct, b, s) ==
    [type |-> t, campaign_id |-> c, increase_percent |-> pct,
     new_budget |-> b, new_status |-> s]

\* The actions propose_action is called with: a budget increase over the
\* limits, one exactly on both limits, and a status change.
ProposableActions ==
    { Act("budget_increase", "c1", 50, 15000, "none"),
      Act("budget_increase", "c1", 20, 500000, "none"),
      Act("pause", "c1", NoVal, NoVal, "none") }

\* What the collaborators do during one call.
\*   connected: self.agent is set and agent.meta_initialized
\*   managers:  agent._get_managers returns the managers, None, or raises
\*   insights:  managers["insights"].get_campaign_insights returns data,
\*              returns nothing, or raises
\*   update:    managers["campaign"].update_campaign_* returns True, False,
\*              or raises
Envs ==
    [connected : BOOLEAN, managers : {"ok", "none", "raise"},
     insights : {"data", "empty", "raise"}, update : {"true", "false", "raise"}]

Env(c, m, i, u) == [connected |-> c, managers |-> m, insights |-> i, update |-> u]
\* The collaborator behaviours the queue operations are run against: all
\* calls succeed, the update is reported failed, the agent is not connected.
EnvScenarios ==
    { Env(TRUE, "ok", "data", "true"),
      Env(TRUE, "ok", "data", "false"),
      Env(FALSE, "ok", "data", "true") }

\* A result dict: success, executed, and the message (by kind).
Res(s, e, m) == [success |-> s, executed |-> e, msg |-> m]
NoResult == Res(FALSE, FALSE, "no_result")
\* An operation that ended by raising.
Raised(m) == [success |-> FALSE, executed |-> FALSE, msg |-> m, raised |-> TRUE]

\* dict.get(key, default) on a number
GetOr(v, default) == IF v = NoVal THEN default ELSE v

\* ------------------------------------------------------------ ActionLearner
\* timedelta(hours=24) of record_action_with_baseline
analyze_delay_hours == 24

\* The metrics get_campaign_insights yields when it yields data.
Metrics(sp, cpa, roas, cpf) == [spend |-> sp, cpa |-> cpa, roas |-> roas, cpf |-> cpf]
SampleInsights == Metrics(20000, 1000, 200, 60)

\* ActionLearner.record_action_with_baseline: the record it appends.
LearningRecord(id, action, baseline, t) ==
    [id |-> id, action |-> action, campaign_id |-> action.campaign_id,
     executed_at |-> t, analyze_after |-> t + analyze_delay_hours,
     baseline |-> baseline, status |-> "pending_analysis"]

\* calc_change(before, after) < pct and > pct of _determine_effect, for
\* before > 0: ((after - before) / before) * 100 compared with pct, with both
\* sides multiplied by before.
ChangeBelow(before, after, pct) == (after - before) * 100 < pct * before
ChangeAbove(before, after, pct) == (after - before) * 100 > pct * before

Effect(v, c, rule) == [verdict |-> v, confidence |-> c, detail |-> rule]

\* _determine_effect with a pause counted as improved only when the baseline
\* had spend to stop.
determine_effect_pause_needs_spend(action_type, baseline, current) ==
    LET neutral == Effect("neutral", 5, "none")
        cpaRule == current.cpa > 0 /\ baseline.cpa > 0
        roasRule == current.roas > 0 /\ baseline.roas > 0
        cpfRule == current.cpf > 0 /\ baseline.cpf > 0
    IN  IF action_type \in {"budget_increase", "budget_change"}
        THEN IF cpaRule /\ ChangeBelow(baseline.cpa, current.cpa, -10)
             THEN Effect("improved", 8, "cpa")
             ELSE IF cpaRule /\ ChangeAbove(baseline.cpa, current.cpa, 20)
             THEN Effect("worsened", 8, "cpa")
             ELSE IF roasRule /\ ChangeAbove(baseline.roas, current.roas, 10)
             THEN Effect("improved", 8, "roas")
             ELSE IF roasRule /\ ChangeBelow(baseline.roas, current.roas, -20)
             THEN Effect("worsened", 8, "roas")
             ELSE IF cpfRule /\ ChangeBelow(baseline.cpf, current.cpf, -10)
             THEN Effect("improved", 8, "cpf")
             ELSE IF cpfRule /\ ChangeAbove(baseline.cpf, current.cpf, 20)
             THEN Effect("worsened", 8, "cpf")
             ELSE neutral
        ELSE IF action_type = "budget_decrease"
        THEN IF cpaRule /\ ChangeBelow(baseline.cpa, current.cpa, 10)
             THEN Effect("improved", 7, "cpa_held")
             ELSE neutral
        ELSE IF action_type = "pause" /\ baseline.spend > 0
        THEN Effect("improved", 9, "pause")
        ELSE neutral

\* _determine_effect with the ROAS rule consulted before the CPA rule.
determine_effect_roas_first(action_type, baseline, current) ==
    LET neutral == Effect("neutral", 5, "none")
        cpaRule == current.cpa > 0 /\ baseline.cpa > 0
        roasRule == current.roas > 0 /\ baseline.roas > 0
        cpfRule == current.cpf > 0 /\ baseline.cpf > 0
    IN  IF action_type \in {"budget_increase", "budget_change"}
        THEN IF roasRule /\ ChangeAbove(baseline.roas, current.roas, 10)
             THEN Effect("improved", 8, "roas")
             ELSE IF roasRule /\ ChangeBelow(baseline.roas, current.roas, -20)
             THEN Effect("worsened", 8, "roas")
             ELSE IF cpaRule /\ ChangeBelow(baseline.cpa, current.cpa, -10)
             THEN Effect("improved", 8, "cpa")
             ELSE IF cpaRule /\ ChangeAbove(baseline.cpa, current.cpa, 20)
             THEN Effect("worsened", 8, "cpa")
             ELSE IF cpfRule /\ ChangeBelow(baseline.cpf, current.cpf, -10)
             THEN Effect("improved", 8, "cpf")
             ELSE IF cpfRule /\ ChangeAbove(baseline.cpf, current.cpf, 20)
             THEN Effect("worsened", 8, "cpf")
             ELSE neutral
        ELSE IF action_type = "budget_decrease"
        THEN IF cpaRule /\ ChangeBelow(baseline.cpa, current.cpa, 10)
             THEN Effect("improved", 7, "cpa_held")
             ELSE neutral
        ELSE IF action_type = "pause"
        THEN Effect("improved", 9, "pause")
        ELSE neutral

\* ActionLearner._determine_effect; confidence in tenths.
determine_effect(action_type, baseline, current) ==
    LET neutral == Effect("neutral", 5, "none")
        cpaRule == current.cpa > 0 /\ baseline.cpa > 0
        roasRule == current.roas > 0 /\ baseline.roas > 0
        cpfRule == current.cpf > 0 /\ baseline.cpf > 0
    IN  IF action_type \in {"budget_increase", "budget_change"}
        THEN IF cpaRule /\ ChangeBelow(baseline.cpa, current.cpa, -10)
             THEN Effect("improved", 8, "cpa")
             ELSE IF cpaRule /\ ChangeAbove(baseline.cpa, current.cpa, 20)
             THEN Effect("worsened", 8, "cpa")
             ELSE IF roasRule /\ ChangeAbove(baseline.roas, current.roas, 10)
             THEN Effect("improved", 8, "roas")
             ELSE IF roasRule /\ ChangeBelow(baseline.roas, current.roas, -20)
             THEN Effect("worsened", 8, "roas")
             ELSE IF cpfRule /\ ChangeBelow(baseline.cpf, current.cpf, -10)
             THEN Effect("improved", 8, "cpf")
             ELSE IF cpfRule /\ ChangeAbove(baseline.cpf, current.cpf, 20)
             THEN Effect("worsened", 8, "cpf")
             ELSE neutral
        ELSE IF action_type = "budget_decrease"
        THEN IF cpaRule /\ ChangeBelow(baseline.cpa, current.cpa, 10)
             THEN Effect("improved", 7, "cpa_held")
             ELSE neutral
        ELSE IF action_type = "pause"
        THEN Effect("improved", 9, "pause")
        ELSE neutral

\* What the collaborators do when _analyze_action_effect fetches the current
\* metrics of one record: _get_managers returns None, get_campaign_insights
\* returns nothing or raises, or it returns the metrics cur.
Fetch(kind, cur) == [kind |-> kind, current |-> cur]
FetchFailures == {"no_managers", "empty", "raise"}

\* ActionLearner._analyze_action_effect: the learning it returns; the caller
\* gets None (here NoLearning) when the metrics cannot be obtained.
NoLearning == [id |-> 0]
analyze_action_effect(record, fetch, t) ==
    IF fetch.kind \in FetchFailures
    THEN NoLearning
    ELSE LET effect == determine_effect(record.action.type, record.baseline,
                                        fetch.current)
         IN  [id |-> record.id, action |-> record.action,
              campaign_id |-> record.campaign_id,
              executed_at |-> record.executed_at, analyzed_at |-> t,
              baseline |-> record.baseline, after |-> fetch.current,
              effect |-> effect.verdict, effect_detail |-> effect.detail,
              confidence |-> effect.confidence]

\* The test of analyze_pending_actions that a record is ready.
IsDue_since_execution(record, t) == t >= record.executed_at
IsDue(record, t) == t >= record.analyze_after

\* ------------------------------------------------------------ ActionExecutor
\* What one private method did: the result it returned, the ad-platform
\* mutation calls it invoked, and whether it handed a baseline to the learner.
Out(r, c, l) == [ret |-> r, calls |-> c, learn |-> l]
\* execute has not been called.
NoOut == Out(NoResult, <<>>, FALSE)
Call(op, campaign, value) == [op |-> op, campaign |-> campaign, value |-> value]

\* _safety_check that also bounds the budget_change actions the direct
\* path builds.
safety_check_all_budget_types(action) ==
    IF action.type \in {"budget_increase", "budget_change"}
    THEN IF GetOr(action.increase_percent, 0) > max_budget_increase_percent
         THEN [passed |-> FALSE, reason |-> "increase_percent_over_limit"]
         ELSE IF GetOr(action.new_budget, 0) > max_daily_budget
         THEN [passed |-> FALSE, reason |-> "new_budget_over_limit"]
         ELSE [passed |-> TRUE, reason |-> "none"]
    ELSE [passed |-> TRUE, reason |-> "none"]

\* _safety_check without its daily-budget test.
safety_check_percent_only(action) ==
    IF action.type = "budget_increase"
       /\ GetOr(action.increase_percent, 0) > max_budget_increase_percent
    THEN [passed |-> FALSE, reason |-> "increase_percent_over_limit"]
    ELSE [passed |-> TRUE, reason |-> "none"]

\* ActionExecutor._safety_check
safety_check(action) ==
    IF action.type = "budget_increase"
    THEN IF GetOr(action.increase_percent, 0) > max_budget_increase_percent
         THEN [passed |-> FALSE, reason |-> "increase_percent_over_limit"]
         ELSE IF GetOr(action.new_budget, 0) > max_daily_budget
         THEN [passed |-> FALSE, reason |-> "new_budget_over_limit"]
         ELSE [passed |-> TRUE, reason |-> "none"]
    ELSE [passed |-> TRUE, reason |-> "none"]

\* _execute_budget_change that gives up when the baseline cannot be fetched.
execute_budget_change_needs_baseline(action, env) ==
    IF ~env.connected
    THEN Out(Res(FALSE, FALSE, "not_connected"), <<>>, FALSE)
    ELSE IF action.campaign_id = "none" \/ action.new_budget = NoVal
            \/ action.new_budget = 0
    THEN Out(Res(FALSE, FALSE, "missing_params"), <<>>, FALSE)
    ELSE IF env.managers = "raise"
    THEN Out(Res(FALSE, FALSE, "error"), <<>>, FALSE)
    ELSE IF env.managers = "none"
    THEN Out(Res(FALSE, FALSE, "managers_failed"), <<>>, FALSE)
    ELSE IF env.insights # "data"
    THEN Out(Res(FALSE, FALSE, "error"), <<>>, FALSE)
    ELSE LET call == Call("update_campaign_budget", action.campaign_id,
                          action.new_budget)
         IN  CASE env.update = "true" ->
                    Out(Res(TRUE, TRUE, "budget_changed"), <<call>>, TRUE)
               [] env.update = "false" ->
                    Out(Res(FALSE, FALSE, "update_failed"), <<call>>, FALSE)
               [] OTHER ->
                    Out(Res(FALSE, FALSE, "error"), <<call>>, FALSE)

\* ActionExecutor._execute_budget_change
execute_budget_change(action, env) ==
    IF ~env.connected
    THEN Out(Res(FALSE, FALSE, "not_connected"), <<>>, FALSE)
    ELSE IF action.campaign_id = "none" \/ action.new_budget = NoVal
            \/ action.new_budget = 0
    THEN Out(Res(FALSE, FALSE, "missing_params"), <<>>, FALSE)
    ELSE IF env.managers = "raise"
    THEN Out(Res(FALSE, FALSE, "error"), <<>>, FALSE)
    ELSE IF env.managers = "none"
    THEN Out(Res(FALSE, FALSE, "managers_failed"), <<>>, FALSE)
    ELSE LET baseline == env.insights = "data"
             call == Call("update_campaign_budget", action.campaign_id,
                          action.new_budget)
         IN  CASE env.update = "true" ->
                    Out(Res(TRUE, TRUE, "budget_changed"), <<call>>, baseline)
               [] env.update = "false" ->
                    Out(Res(FALSE, FALSE, "update_failed"), <<call>>, FALSE)
               [] OTHER ->
                    Out(Res(FALSE, FALSE, "error"), <<call>>, FALSE)

\* ActionExecutor._execute_status_change
execute_status_change(action, status, env) ==
    IF ~env.connected
    THEN Out(Res(FALSE, FALSE, "not_connected"), <<>>, FALSE)
    ELSE IF action.campaign_id = "none"
    THEN Out(Res(FALSE, FALSE, "missing_params"), <<>>, FALSE)
    ELSE IF env.managers = "raise"
    THEN Out(Res(FALSE, FALSE, "error"), <<>>, FALSE)
    ELSE IF env.managers = "none"
    THEN Out(Res(FALSE, FALSE, "managers_failed"), <<>>, FALSE)
    ELSE LET new_status == IF action.new_status = "none" THEN status
                           ELSE action.new_status
             call == Call("update_campaign_status", action.campaign_id,
                          new_status)
         IN  CASE env.update = "true" ->
                    Out(Res(TRUE, TRUE, "status_changed"), <<call>>, FALSE)
               [] env.update = "false" ->
                    Out(Res(FALSE, FALSE, "update_failed"), <<call>>, FALSE)
               [] OTHER ->
                    Out(Res(FALSE, FALSE, "error"), <<call>>, FALSE)

\* ActionExecutor.execute
execute(action, m, env) ==
    IF m = "notify_only"
    THEN Out(Res(TRUE, FALSE, "notify_only"), <<>>, FALSE)
    ELSE IF ~safety_check(action).passed
    THEN Out(Res(FALSE, FALSE, safety_check(action).reason), <<>>, FALSE)
    ELSE CASE action.type \in {"budget_change", "budget_increase",
                               "budget_decrease"} ->
                execute_budget_change(action, env)
           [] action.type = "status_change" ->
                execute_status_change(action,
                    IF action.new_status = "none" THEN "PAUSED"
                    ELSE action.new_status, env)
           [] action.type = "pause" ->
                execute_status_change(action, "PAUSED", env)
           [] action.type = "resume" ->
                execute_status_change(action, "ACTIVE", env)
           [] OTHER -> Out(Res(FALSE, FALSE, "unsupported_type"), <<>>, FALSE)

\* -------------------------------------------------------------- ActionQueue
\* A record add_action builds; approve/reject/mark_executed patch it.
QueueRecord(id, action) ==
    [id |-> id, status |-> "pending", action |-> action,
     executed_at |-> FALSE, result |-> NoResult]

\* The record the direct-execution methods hand to add_to_history: it has
\* no "id" and no "status" key.
DirectRecord(action, result) ==
    [type |-> "direct_execution", action |-> action, result |-> result,
     executed_at |-> TRUE]

HasId(r) == "id" \in DOMAIN r

\* Position of the first record of seq whose id is action_id, 0 if none
\* (the scan of ActionQueue.approve and ActionQueue.reject over pending,
\* whose records all carry an id).
FindPending(seq, action_id) ==
    LET hits == {i \in 1..Len(seq) : seq[i].id = action_id}
    IN  IF hits = {} THEN 0 ELSE CHOOSE i \in hits : \A j \in hits : i <= j

RemoveAt(seq, i) == SubSeq(seq, 1, i - 1) \o SubSeq(seq, i + 1, Len(seq))

\* mark_executed that patches the first queue record of the history, whatever
\* its id.
mark_executed_first_record(hist, action_id, result) ==
    LET hits == {i \in 1..Len(hist) : HasId(hist[i])}
        firstHit == CHOOSE i \in hits : \A j \in hits : i <= j
    IN  IF hits = {}
        THEN [history |-> hist, raised |-> FALSE, marked |-> 0]
        ELSE [history |-> [hist EXCEPT ![firstHit] =
                              [@ EXCEPT !.status = "executed",
                                        !.executed_at = TRUE,
                                        !.result = result]],
              raised |-> FALSE, marked |-> hist[firstHit].id]

\* ActionQueue.mark_executed: scans history from the front reading
\* action["id"] of every record; a record without that key raises KeyError
\* before any later record is looked at.
mark_executed(hist, action_id, result) ==
    LET noId == {i \in 1..Len(hist) : ~HasId(hist[i])}
        hits == {i \in 1..Len(hist) : HasId(hist[i]) /\ hist[i].id = action_id}
        firstNoId == IF noId = {} THEN Len(hist) + 1
                     ELSE CHOOSE i \in noId : \A j \in noId : i <= j
        firstHit == IF hits = {} THEN Len(hist) + 1
                    ELSE CHOOSE i \in hits : \A j \in hits : i <= j
    IN  IF firstNoId < firstHit
        THEN [history |-> hist, raised |-> TRUE, marked |-> 0]
        ELSE IF hits = {}
        THEN [history |-> hist, raised |-> FALSE, marked |-> 0]
        ELSE [history |-> [hist EXCEPT ![firstHit] =
                              [@ EXCEPT !.status = "executed",
                                        !.executed_at = TRUE,
                                        !.result = result]],
              raised |-> FALSE, marked |-> hist[firstHit].id]

\* The ad-platform calls of one operation, tagged with the queue id of the
\* action they were made for (0 for a direct execution).
Tagged(cs, id) == [i \in 1..Len(cs) |-> [call |-> cs[i], forId |-> id]]

\* arg is the new_budget of a direct budget change, NoVal otherwise.
Ret(op, id, arg, ret) == [op |-> op, id |-> id, arg |-> arg, ret |-> ret]

\* The learner's pending list after an operation whose Out is out.
LearnerAfter(out, action) ==
    IF out.learn
    THEN Append(learnPending,
                LearningRecord(learnSeq, action, SampleInsights, now))
    ELSE learnPending

\* ------------------------------------------------------- PerformanceMonitor
\* Units: spend, cpa and targets for cpf and cpa are yen; cpf, roas, ctr and
\* cvr are kept in hundredths (a cpf of 62.5 yen is 6250, a roas of 3.0 is 300,
\* a ctr of 1.25 % is 125); the cpa ratios of the thresholds are in tenths.

\* MIN_DAILY_SPEND of _make_integrated_judgment
MIN_DAILY_SPEND == 1000

\* A value of the wrong type (text where targets.json should hold a number):
\* comparing it or dividing by it raises TypeError.
BadVal == -2

\* round(a / b, n) on integers already scaled by 10^n: nearest, ties to even.
RoundDiv(a, b) ==
    LET q == a \div b
        r == a % b
    IN  IF 2 * r < b THEN q
        ELSE IF 2 * r > b THEN q + 1
        ELSE IF q % 2 = 0 THEN q ELSE q + 1

\* One row of insights as the insights manager returns it.
Row(sp, im, cl, cv, val, fo) ==
    [spend |-> sp, impressions |-> im, clicks |-> cl, conversions |-> cv,
     conversion_value |-> val, follows |-> fo]

RECURSIVE SumField(_, _)
SumField(rows, key) ==
    IF rows = <<>> THEN 0 ELSE rows[1][key] + SumField(Tail(rows), key)

\* The empty dict {}.
EmptyPerf == [empty |-> TRUE]
\* dict.get(key, 0)
PerfGet(perf, key) == IF key \in DOMAIN perf THEN perf[key] ELSE 0

\* IntegratedAgent._aggregate_insights: totals and the derived metrics.
aggregate_insights(insights_list) ==
    IF insights_list = <<>> THEN EmptyPerf
    ELSE LET spend == SumField(insights_list, "spend")
             impressions == SumField(insights_list, "impressions")
             clicks == SumField(insights_list, "clicks")
             conversions == SumField(insights_list, "conversions")
             conversion_value == SumField(insights_list, "conversion_value")
             follows == SumField(insights_list, "follows")
         IN  [spend |-> spend, impressions |-> impressions, clicks |-> clicks,
              conversions |-> conversions,
              conversion_value |-> conversion_value, follows |-> follows,
              ctr |-> IF impressions > 0
                      THEN RoundDiv(clicks * 10000, impressions) ELSE 0,
              cvr |-> IF clicks > 0
                      THEN RoundDiv(conversions * 10000, clicks) ELSE 0,
              cpa |-> IF conversions > 0
                      THEN RoundDiv(spend, conversions) ELSE 0,
              roas |-> IF spend > 0 /\ conversion_value > 0
                       THEN RoundDiv(conversion_value * 100, spend) ELSE 0,
              cpf |-> IF follows > 0
                      THEN RoundDiv(spend * 100, follows) ELSE 0]

\* _calculate_daily_average: the cumulative values divided by the number of
\* days and cpf recomputed from the averages; the rates are left alone.  The
\* totals the model feeds it are multiples of the number of days.
calculate_daily_average(perf, days) ==
    IF perf = EmptyPerf \/ days <= 0 THEN perf
    ELSE LET avg(key) == perf[key] \div days
             spend == avg("spend")
             follows == avg("follows")
         IN  [perf EXCEPT !.spend = spend,
                          !.impressions = avg("impressions"),
                          !.clicks = avg("clicks"),
                          !.conversions = avg("conversions"),
                          !.follows = follows,
                          !.cpf = IF follows > 0 /\ spend > 0
                                  THEN RoundDiv(spend * 100, follows)
                                  ELSE perf.cpf]

\* What get_campaign_insights does for one period: "raise" or the rows.
Insights(kind, rows) == [kind |-> kind, rows |-> rows]

\* One period of _get_multi_period_performance: a failing or empty fetch gives
\* the empty dict.
period_performance(fetch, days) ==
    IF fetch.kind = "raise" \/ fetch.rows = <<>> THEN EmptyPerf
    ELSE IF days > 1
         THEN calculate_daily_average(aggregate_insights(fetch.rows), days)
         ELSE aggregate_insights(fetch.rows)

\* _get_multi_period_performance.  The 30-day period is fetched the same way
\* and read by nothing in the judgment; it is left out.
get_multi_period_performance(fetches) ==
    [today |-> period_performance(fetches.today, 1),
     yesterday |-> period_performance(fetches.yesterday, 1),
     last_7d |-> period_performance(fetches.last_7d, 7)]

\* CAMPAIGN_TYPE_CONFIG: each entry with the keys the source gives it.
NoThresholds == [empty |-> TRUE]
CpfThresholds == [cpf_good |-> 50, cpf_warning |-> 100, cpf_critical |-> 200]
RoasThresholds == [roas_good |-> 300, roas_warning |-> 200, roas_critical |-> 100]
TrafficConfig ==
    [primary_kpi |-> "cpf", is_traffic_campaign |-> TRUE,
     ignore_conversions |-> TRUE, thresholds |-> CpfThresholds]
ConfigNames ==
    {"LINK_CLICKS", "POST_ENGAGEMENT", "OUTCOME_TRAFFIC", "OUTCOME_ENGAGEMENT",
     "CONVERSIONS", "PRODUCT_CATALOG_SALES", "ASC", "OUTCOME_SALES", "REACH",
     "BRAND_AWARENESS", "DEFAULT"}
CAMPAIGN_TYPE_CONFIG(name) ==
    CASE name \in {"LINK_CLICKS", "POST_ENGAGEMENT", "OUTCOME_TRAFFIC",
                   "OUTCOME_ENGAGEMENT"} -> TrafficConfig
      [] name = "CONVERSIONS" ->
            [primary_kpi |-> "cpa",
             thresholds |-> [cpa_good_ratio |-> 7, cpa_warning_ratio |-> 10,
                             cpa_critical_ratio |-> 13, cvr_warning |-> 50]]
      [] name \in {"PRODUCT_CATALOG_SALES", "OUTCOME_SALES"} ->
            [primary_kpi |-> "roas", thresholds |-> RoasThresholds]
      [] name = "ASC" ->
            [primary_kpi |-> "roas", is_asc_campaign |-> TRUE,
             thresholds |-> [roas_good |-> 300, roas_warning |-> 200,
                             roas_critical |-> 100, cpa_warning_ratio |-> 12,
                             learning_phase_min_conversions |-> 50]]
      [] name = "REACH" ->
            [primary_kpi |-> "cpm",
             thresholds |-> [cpm_good |-> 300, cpm_warning |-> 500,
                             frequency_warning |-> 30]]
      [] name = "BRAND_AWARENESS" ->
            [primary_kpi |-> "cpm",
             thresholds |-> [cpm_good |-> 400, cpm_warning |-> 600,
                             frequency_warning |-> 25]]
      [] name = "DEFAULT" ->
            [primary_kpi |-> "spend", thresholds |-> NoThresholds]

\* type_config.get(key, False)
ConfigFlag(type_config, key) ==
    IF key \in DOMAIN type_config THEN type_config[key] ELSE FALSE
\* thresholds.get(key, default)
Threshold(thresholds, key, default) ==
    IF key \in DOMAIN thresholds THEN thresholds[key] ELSE default

\* The classification with the table looked up before the advantage-plus
\* flag.
classify_by_objective_first(campaign) ==
    IF campaign.objective \in ConfigNames
    THEN [type_config |-> CAMPAIGN_TYPE_CONFIG(campaign.objective),
          objective |-> campaign.objective]
    ELSE IF campaign.is_asc
            \/ campaign.smart_promotion_type = "ADVANTAGE_PLUS_SHOPPING"
    THEN [type_config |-> CAMPAIGN_TYPE_CONFIG("ASC"), objective |-> "ASC"]
    ELSE [type_config |-> CAMPAIGN_TYPE_CONFIG("DEFAULT"),
          objective |-> campaign.objective]

\* The classification at the head of _analyze_campaign: the profile and the
\* objective shown.
classify(campaign) ==
    IF campaign.is_asc \/ campaign.smart_promotion_type = "ADVANTAGE_PLUS_SHOPPING"
    THEN [type_config |-> CAMPAIGN_TYPE_CONFIG("ASC"), objective |-> "ASC"]
    ELSE [type_config |-> IF campaign.objective \in ConfigNames
                          THEN CAMPAIGN_TYPE_CONFIG(campaign.objective)
                          ELSE CAMPAIGN_TYPE_CONFIG("DEFAULT"),
          objective |-> campaign.objective]

\* A targets dict; NoVal for a key it does not hold.
Targets(cpf, roas, cpa) ==
    [target_cpf |-> cpf, target_roas |-> roas, target_cpa |-> cpa]
NoTargets == Targets(NoVal, NoVal, NoVal)
\* The defaults TargetManager starts with.
DefaultTargets(campaign_type) ==
    IF campaign_type = "traffic" THEN Targets(50, NoVal, NoVal)
    ELSE Targets(NoVal, 300, 5000)
\* TargetManager.get_campaign_targets: the campaign's own entry if it has
\* one, else the defaults of its type.
get_campaign_targets(own, campaign_type) ==
    IF own.has_entry THEN own.targets ELSE DefaultTargets(campaign_type)

Issue(sev, what) == [severity |-> sev, message |-> what]
Comparison(metric, versus, today, ref) ==
    [metric |-> metric, comparison |-> versus, today |-> today, ref |-> ref]
\* What a block of the judgment adds.
Found(i, p, c) == [issues |-> i, positives |-> p, comparisons |-> c,
                   raised |-> FALSE]
Nothing == Found(<<>>, <<>>, <<>>)
TypeError == [issues |-> <<>>, positives |-> <<>>, comparisons |-> <<>>,
              raised |-> TRUE]

\* The cpf block of _make_integrated_judgment.
judge_cpf(thresholds, today, avg_7d, targets) ==
    LET cpf_today == PerfGet(today, "cpf")
        cpf_7d == PerfGet(avg_7d, "cpf")
        follows_today == PerfGet(today, "follows")
        target_cpf == IF targets.target_cpf # NoVal THEN targets.target_cpf
                      ELSE Threshold(thresholds, "cpf_good", 50)
        follows == IF follows_today > 0 THEN <<"follows_today">> ELSE <<>>
        compared == IF cpf_7d > 0
                    THEN <<Comparison("CPF", "vs_7d", cpf_today, cpf_7d)>>
                    ELSE <<>>
    IN  IF cpf_today > 0
        THEN IF target_cpf = BadVal THEN TypeError
             ELSE IF cpf_today <= target_cpf * 100
             THEN Found(<<>>, follows \o <<"cpf_good">>, compared)
             ELSE IF cpf_today > Threshold(thresholds, "cpf_critical", 200) * 100
             THEN Found(<<Issue("critical", "cpf_critical")>>, follows, compared)
             ELSE IF cpf_today > Threshold(thresholds, "cpf_warning", 100) * 100
             THEN Found(<<Issue("warning", "cpf_warning")>>, follows, compared)
             ELSE Found(<<>>, follows, compared)
        ELSE IF follows_today = 0 /\ PerfGet(today, "spend") > 0
             THEN Found(<<Issue("warning", "no_follows")>>, follows, <<>>)
             ELSE Found(<<>>, follows, <<>>)

\* The roas block.
judge_roas(thresholds, today, avg_7d, targets) ==
    LET roas_today == PerfGet(today, "roas")
        roas_7d == PerfGet(avg_7d, "roas")
        target_roas == IF targets.target_roas # NoVal THEN targets.target_roas
                       ELSE Threshold(thresholds, "roas_good", 300)
        compared == IF roas_7d > 0 /\ roas_today > 0
                    THEN <<Comparison("ROAS", "vs_7d", roas_today, roas_7d)>>
                    ELSE <<>>
    IN  IF roas_today > 0
        THEN IF target_roas = BadVal THEN TypeError
             ELSE IF roas_today >= target_roas
             THEN Found(<<>>, <<"roas_met">>, compared)
             ELSE IF roas_today < Threshold(thresholds, "roas_critical", 100)
             THEN Found(<<Issue("critical", "roas_critical")>>, <<>>, compared)
             ELSE IF roas_today < Threshold(thresholds, "roas_warning", 200)
             THEN Found(<<Issue("warning", "roas_warning")>>, <<>>, compared)
             ELSE Found(<<>>, <<>>, compared)
        ELSE Nothing

\* The cpa block.  targets.get("target_cpa") is None when absent; None and 0
\* are false.
judge_cpa(thresholds, today, yesterday, avg_7d, targets) ==
    LET cpa_today == PerfGet(today, "cpa")
        cpa_yesterday == PerfGet(yesterday, "cpa")
        cpa_7d == PerfGet(avg_7d, "cpa")
        target_cpa == targets.target_cpa
        compared ==
            (IF cpa_yesterday > 0 /\ cpa_today > 0
             THEN <<Comparison("CPA", "vs_yesterday", cpa_today, cpa_yesterday)>>
             ELSE <<>>)
            \o (IF cpa_7d > 0 /\ cpa_today > 0
                THEN <<Comparison("CPA", "vs_7d", cpa_today, cpa_7d)>>
                ELSE <<>>)
    IN  IF target_cpa # NoVal /\ target_cpa # 0 /\ cpa_today > 0
        THEN IF target_cpa = BadVal THEN TypeError
             ELSE IF cpa_today * 10
                       <= Threshold(thresholds, "cpa_good_ratio", 7) * target_cpa
             THEN Found(<<>>, <<"cpa_good">>, compared)
             ELSE IF cpa_today * 10
                       >= Threshold(thresholds, "cpa_critical_ratio", 13) * target_cpa
             THEN Found(<<Issue("critical", "cpa_critical")>>, <<>>, compared)
             ELSE IF cpa_today * 10
                       >= Threshold(thresholds, "cpa_warning_ratio", 10) * target_cpa
             THEN Found(<<Issue("warning", "cpa_warning")>>, <<>>, compared)
             ELSE Found(<<>>, <<>>, compared)
        ELSE Found(<<>>, <<>>, compared)

\* The common checks with a fall of the spend by more than half since
\* yesterday counted as a warning.
judge_common_spend_alert(type_config, today, yesterday, avg_7d) ==
    LET is_traffic == ConfigFlag(type_config, "is_traffic_campaign")
        ignore_conversions == ConfigFlag(type_config, "ignore_conversions")
        ctr_today == PerfGet(today, "ctr")
        ctr_yesterday == PerfGet(yesterday, "ctr")
        ctr_seen == ctr_yesterday > 0 /\ ctr_today > 0
        cvr_today == PerfGet(today, "cvr")
        cvr_yesterday == PerfGet(yesterday, "cvr")
        cvr_seen == ~ignore_conversions /\ cvr_yesterday > 0 /\ cvr_today > 0
        spend_today == PerfGet(today, "spend")
        spend_yesterday == PerfGet(yesterday, "spend")
        spend_7d == PerfGet(avg_7d, "spend")
        spend_seen == spend_yesterday > 0 /\ spend_today > 0
    IN  Found(
          (IF ctr_seen /\ ~is_traffic /\ ChangeBelow(ctr_yesterday, ctr_today, -50)
           THEN <<Issue("warning", "ctr_drop")>> ELSE <<>>)
          \o (IF cvr_seen /\ ChangeBelow(cvr_yesterday, cvr_today, -50)
              THEN <<Issue("warning", "cvr_drop")>> ELSE <<>>)
          \o (IF spend_seen /\ ChangeBelow(spend_yesterday, spend_today, -50)
              THEN <<Issue("warning", "spend_drop")>> ELSE <<>>),
          <<>>,
          (IF ctr_seen
           THEN <<Comparison("CTR", "vs_yesterday", ctr_today, ctr_yesterday)>>
           ELSE <<>>)
          \o (IF cvr_seen
              THEN <<Comparison("CVR", "vs_yesterday", cvr_today, cvr_yesterday)>>
              ELSE <<>>)
          \o (IF spend_seen
              THEN <<Comparison("spend", "vs_yesterday", spend_today,
                                spend_yesterday)>>
              ELSE <<>>)
          \o (IF spend_7d > 0 /\ spend_today > 0
              THEN <<Comparison("spend", "vs_7d", spend_today, spend_7d)>>
              ELSE <<>>))

\* The checks every campaign type gets: CTR, CVR and the two spend
\* comparisons.
judge_common(type_config, today, yesterday, avg_7d) ==
    LET is_traffic == ConfigFlag(type_config, "is_traffic_campaign")
        ignore_conversions == ConfigFlag(type_config, "ignore_conversions")
        ctr_today == PerfGet(today, "ctr")
        ctr_yesterday == PerfGet(yesterday, "ctr")
        ctr_seen == ctr_yesterday > 0 /\ ctr_today > 0
        cvr_today == PerfGet(today, "cvr")
        cvr_yesterday == PerfGet(yesterday, "cvr")
        cvr_seen == ~ignore_conversions /\ cvr_yesterday > 0 /\ cvr_today > 0
        spend_today == PerfGet(today, "spend")
        spend_yesterday == PerfGet(yesterday, "spend")
        spend_7d == PerfGet(avg_7d, "spend")
    IN  Found(
          (IF ctr_seen /\ ~is_traffic /\ ChangeBelow(ctr_yesterday, ctr_today, -50)
           THEN <<Issue("warning", "ctr_drop")>> ELSE <<>>)
          \o (IF cvr_seen /\ ChangeBelow(cvr_yesterday, cvr_today, -50)
              THEN <<Issue("warning", "cvr_drop")>> ELSE <<>>),
          <<>>,
          (IF ctr_seen
           THEN <<Comparison("CTR", "vs_yesterday", ctr_today, ctr_yesterday)>>
           ELSE <<>>)
          \o (IF cvr_seen
              THEN <<Comparison("CVR", "vs_yesterday", cvr_today, cvr_yesterday)>>
              ELSE <<>>)
          \o (IF spend_yesterday > 0 /\ spend_today > 0
              THEN <<Comparison("spend", "vs_yesterday", spend_today,
                                spend_yesterday)>>
              ELSE <<>>)
          \o (IF spend_7d > 0 /\ spend_today > 0
              THEN <<Comparison("spend", "vs_7d", spend_today, spend_7d)>>
              ELSE <<>>))

Count(seq, sev) == Cardinality({i \in 1..Len(seq) : seq[i].severity = sev})

Judgment(status, severity, i, p, c) ==
    [status |-> status, severity |-> severity, issues |-> i, positives |-> p,
     comparisons |-> c, raised |-> FALSE]
\* The judgment did not return: an exception left it.
JudgmentRaised ==
    [status |-> "none", severity |-> "none", issues |-> <<>>,
     positives |-> <<>>, comparisons |-> <<>>, raised |-> TRUE]

\* The verdict with a tie between warnings and positives counted as a warning.
verdict_warning_on_tie(issues, positives, comparisons) ==
    LET critical_count == Count(issues, "critical")
        warning_count == Count(issues, "warning")
        positive_count == Len(positives)
    IN  IF critical_count > 0
        THEN Judgment("critical", "high", issues, positives, comparisons)
        ELSE IF positive_count > 0 /\ positive_count > warning_count
        THEN Judgment("opportunity", "none", issues, positives, comparisons)
        ELSE IF warning_count > 0 /\ warning_count >= positive_count
        THEN Judgment("warning", "medium", issues, positives, comparisons)
        ELSE Judgment("normal", "none", issues, positives, comparisons)

\* The verdict with the positives looked at before the critical issues.
verdict_positives_first(issues, positives, comparisons) ==
    LET critical_count == Count(issues, "critical")
        warning_count == Count(issues, "warning")
        positive_count == Len(positives)
    IN  IF positive_count > 0 /\ positive_count > warning_count
        THEN Judgment("opportunity", "none", issues, positives, comparisons)
        ELSE IF critical_count > 0
        THEN Judgment("critical", "high", issues, positives, comparisons)
        ELSE IF warning_count > 0 /\ warning_count > positive_count
        THEN Judgment("warning", "medium", issues, positives, comparisons)
        ELSE Judgment("normal", "none", issues, positives, comparisons)

\* The verdict at the end of _make_integrated_judgment.
verdict(issues, positives, comparisons) ==
    LET critical_count == Count(issues, "critical")
        warning_count == Count(issues, "warning")
        positive_count == Len(positives)
    IN  IF critical_count > 0
        THEN Judgment("critical", "high", issues, positives, comparisons)
        ELSE IF positive_count > 0 /\ positive_count > warning_count
        THEN Judgment("opportunity", "none", issues, positives, comparisons)
        ELSE IF warning_count > 0 /\ warning_count > positive_count
        THEN Judgment("warning", "medium", issues, positives, comparisons)
        ELSE Judgment("normal", "none", issues, positives, comparisons)

\* periods.get(name, {})
PeriodGet(periods, name) ==
    IF name \in DOMAIN periods THEN periods[name] ELSE EmptyPerf

\* The noise floor applied to the spend of yesterday instead of today.
below_noise_floor_yesterday(periods) ==
    PerfGet(PeriodGet(periods, "yesterday"), "spend") < MIN_DAILY_SPEND

\* The noise floor: today's spend under MIN_DAILY_SPEND.
below_noise_floor(periods) ==
    PerfGet(PeriodGet(periods, "today"), "spend") < MIN_DAILY_SPEND

\* _make_integrated_judgment.  budget_status is copied into the result
\* unread and is left out.
make_integrated_judgment(type_config, periods, targets) ==
    LET today == PeriodGet(periods, "today")
        yesterday == PeriodGet(periods, "yesterday")
        avg_7d == PeriodGet(periods, "last_7d")
        primary_kpi == type_config.primary_kpi
        thresholds == type_config.thresholds
        kpi == CASE primary_kpi = "cpf" ->
                      judge_cpf(thresholds, today, avg_7d, targets)
                 [] primary_kpi = "roas" ->
                      judge_roas(thresholds, today, avg_7d, targets)
                 [] primary_kpi = "cpa" ->
                      judge_cpa(thresholds, today, yesterday, avg_7d, targets)
                 [] OTHER -> Nothing
        common == judge_common(type_config, today, yesterday, avg_7d)
    IN  IF below_noise_floor(periods)
        THEN Judgment("insufficient_data", "none", <<>>, <<>>, <<>>)
        ELSE IF kpi.raised THEN JudgmentRaised
        ELSE verdict(kpi.issues \o common.issues,
                     kpi.positives \o common.positives,
                     kpi.comparisons \o common.comparisons)

\* A campaign as get_campaigns returns it, with what the collaborators give
\* for it: the insights of each period and the entry the target manager holds.
Campaign(id, objective, is_asc, fetches, own) ==
    [id |-> id, objective |-> objective, is_asc |-> is_asc,
     smart_promotion_type |-> IF is_asc THEN "ADVANTAGE_PLUS_SHOPPING"
                              ELSE "none",
     fetches |-> fetches, own |-> own]
\* The target manager's entry for a campaign: none (defaults apply), an
\* entry, or no target manager at all (its construction failed).
OwnTargets(manager, has_entry, targets) ==
    [manager |-> manager, has_entry |-> has_entry, targets |-> targets]

\* _analyze_campaign: the campaign result.
analyze_campaign(campaign) ==
    LET class == classify(campaign)
        type_config == class.type_config
        periods == get_multi_period_performance(campaign.fetches)
        campaign_type == IF ConfigFlag(type_config, "is_traffic_campaign")
                         THEN "traffic" ELSE "sales"
        targets == IF campaign.own.manager
                   THEN get_campaign_targets(campaign.own, campaign_type)
                   ELSE NoTargets
    IN  [id |-> campaign.id, objective |-> class.objective,
         type_config |-> type_config,
         periods |-> periods,
         judgment |-> make_integrated_judgment(type_config, periods, targets),
         is_asc |-> campaign.is_asc
                    \/ campaign.smart_promotion_type = "ADVANTAGE_PLUS_SHOPPING"]

\* _format_alert and _format_opportunity, without the display texts.
format_alert(campaign_result) ==
    [type |-> "performance_issue",
     severity |-> IF campaign_result.judgment.status = "critical"
                  THEN "high" ELSE "medium",
     campaign_id |-> campaign_result.id,
     issues |-> campaign_result.judgment.issues]
format_opportunity(campaign_result) ==
    [type |-> "opportunity", campaign_id |-> campaign_result.id,
     positives |-> campaign_result.judgment.positives]

\* The account result of check_account, and beside it every campaign result
\* _analyze_campaign returned during the pass.
AccountResult(error, campaigns, alerts, opportunities, recommendations) ==
    [error |-> error, campaigns |-> campaigns, alerts |-> alerts,
     opportunities |-> opportunities, recommendations |-> recommendations]
EmptyAccountResult == AccountResult("none", <<>>, <<>>, <<>>, <<>>)
\* The early returns: a dict with the error key alone.
ErrorOnly(msg) == [error |-> msg]
MonOut(result, analyzed) == [result |-> result, analyzed |-> analyzed]

\* The loop of check_account from campaign i on.  An exception leaving
\* _analyze_campaign ends the loop: the except clause of check_account sets
\* the error key on what was collected so far.
RECURSIVE check_campaigns(_, _, _, _)
\* The body of the loop once _analyze_campaign has returned campaign_result
\* or raised, and the rest of the loop after it.
collect_campaign_result(campaigns, i, result, analyzed, campaign_result) ==
    LET status == campaign_result.judgment.status
        seen == Append(analyzed, campaign_result)
        listed == [result EXCEPT
                     !.campaigns = Append(@, campaign_result)]
    IN  IF campaign_result.judgment.raised
        THEN MonOut([result EXCEPT !.error = "raised"], seen)
        ELSE IF status = "insufficient_data"
        THEN check_campaigns(campaigns, i + 1, result, seen)
        ELSE IF status = "critical"
        THEN check_campaigns(campaigns, i + 1,
               [listed EXCEPT
                  !.alerts = Append(@, format_alert(campaign_result))],
               seen)
        ELSE IF status = "opportunity"
        THEN check_campaigns(campaigns, i + 1,
               [listed EXCEPT
                  !.opportunities =
                      Append(@, format_opportunity(campaign_result))],
               seen)
        ELSE check_campaigns(campaigns, i + 1, listed, seen)
check_campaigns(campaigns, i, result, analyzed) ==
    IF i > Len(campaigns) THEN MonOut(result, analyzed)
    ELSE collect_campaign_result(campaigns, i, result, analyzed,
                                 analyze_campaign(campaigns[i]))

\* What the collaborators of check_account do: the agent is connected or
\* not, _get_managers gives managers, None or raises, and the model answers
\* _generate_recommendations with llm.
MonEnv(connected, managers, llm) ==
    [connected |-> connected, managers |-> managers, llm |-> llm]

\* What the model call of _generate_recommendations does: it raises, or it
\* answers with a text; the text is the sequence of its parts: prose, a JSON
\* list ("list"), an opening json fence ("fence_json") and a bare fence
\* ("fence").
Reply(kind, text) == [kind |-> kind, text |-> text]
LlmRaises == Reply("raise", <<>>)
IndexOf(text, parts) ==
    IF \E i \in 1..Len(text) : text[i] \in parts
    THEN CHOOSE i \in 1..Len(text) :
            text[i] \in parts /\ \A k \in 1..(i - 1) : text[k] \notin parts
    ELSE 0
\* text.split(mark)[1].split("```")[0]: what stands between the first mark
\* and the next fence of any kind, or the end of the text.
Fenced(text, marks) ==
    LET rest == SubSeq(text, IndexOf(text, marks) + 1, Len(text))
        stop == IndexOf(rest, {"fence", "fence_json"})
    IN  IF stop = 0 THEN rest ELSE SubSeq(rest, 1, stop - 1)
\* The string handed to json.loads.
json_str(text) ==
    IF IndexOf(text, {"fence_json"}) > 0 THEN Fenced(text, {"fence_json"})
    ELSE IF IndexOf(text, {"fence"}) > 0 THEN Fenced(text, {"fence"})
    ELSE text

\* _generate_recommendations with text that does not parse kept as the one
\* recommendation.
generate_recommendations_keeps_text(llm) ==
    IF llm.kind = "raise" THEN <<>>
    ELSE IF json_str(llm.text) = <<"list">> THEN <<"rec">>
    ELSE <<"text">>

\* _generate_recommendations: the list it returns.  Whatever is raised
\* inside, by the model call or by json.loads, is caught and gives [].
generate_recommendations(llm) ==
    IF llm.kind = "raise" THEN <<>>
    ELSE IF json_str(llm.text) = <<"list">> THEN <<"rec">>
    ELSE <<>>

\* check_account
check_account(env, campaigns) ==
    IF ~env.connected THEN MonOut(ErrorOnly("not_connected"), <<>>)
    ELSE IF env.managers = "none" THEN MonOut(ErrorOnly("no_managers"), <<>>)
    ELSE IF env.managers = "raise"
    THEN MonOut([EmptyAccountResult EXCEPT !.error = "raised"], <<>>)
    ELSE LET out == check_campaigns(campaigns, 1, EmptyAccountResult, <<>>)
             result == out.result
         IN  IF result.error = "none"
                /\ (result.alerts # <<>> \/ result.opportunities # <<>>)
             THEN MonOut([result EXCEPT !.recommendations =
                                        generate_recommendations(env.llm)],
                         out.analyzed)
             ELSE out

\* No call of check_account is being looked at.
NoMonOut == MonOut(ErrorOnly("idle"), <<>>)
MonIdle ==
    /\ monIn = [env |-> MonEnv(FALSE, "none", LlmRaises), campaigns |-> <<>>]
    /\ monOut = NoMonOut

\* ------------------------------------------------------------ TargetManager
TargetIds == {"c1", "c2"}
TargetTypes == {"traffic", "sales", "other"}
\* A key the dict does not hold, and what get returns then: the empty dict.
NoEntry == [present |-> FALSE]
EmptyMap == NoEntry
\* The entry set_campaign_targets stores: {"name", **targets, "updated_at"}.
Entry(name, targets, t) ==
    [present |-> TRUE, name |-> name, target_cpf |-> targets.target_cpf,
     target_roas |-> targets.target_roas, target_cpa |-> targets.target_cpa,
     updated_at |-> t]
\* The dict set_default_targets stores for a type.
DefaultEntry(targets) ==
    [present |-> TRUE, target_cpf |-> targets.target_cpf,
     target_roas |-> targets.target_roas, target_cpa |-> targets.target_cpa]
TargetStore(campaigns, defaults) == [campaigns |-> campaigns, defaults |-> defaults]
\* What _load_targets returns when there is no readable file.
BuiltinTargets ==
    TargetStore([c \in TargetIds |-> NoEntry],
                [t \in TargetTypes |->
                    IF t = "other" THEN NoEntry
                    ELSE DefaultEntry(DefaultTargets(t))])

\* get_campaign_targets with the type default looked at before the
\* campaign's own entry.
lookup_defaults_first(targets, campaign_id, campaign_type) ==
    IF targets.defaults[campaign_type].present
    THEN targets.defaults[campaign_type]
    ELSE IF targets.campaigns[campaign_id].present
    THEN targets.campaigns[campaign_id]
    ELSE EmptyMap

\* TargetManager.get_campaign_targets on the whole store.
lookup_campaign_targets(targets, campaign_id, campaign_type) ==
    IF targets.campaigns[campaign_id].present
    THEN targets.campaigns[campaign_id]
    ELSE IF targets.defaults[campaign_type].present
    THEN targets.defaults[campaign_type]
    ELSE EmptyMap

\* What was last done to a campaign's entry or a type's default, and when.
LastSet(targets, at) == [set |-> TRUE, targets |-> targets, at |-> at]
NeverSet == [set |-> FALSE, targets |-> NoTargets, at |-> 0]
\* The target values a stored or returned dict holds.
TargetsOf(d) ==
    IF d.present THEN Targets(d.target_cpf, d.target_roas, d.target_cpa)
    ELSE NoTargets
TmRet(op, id, type, value) == [op |-> op, id |-> id, type |-> type, value |-> value]

\* A target manager on the store it loaded, nothing called yet.
TargetsLoaded(store) ==
    /\ tmTargets = store
    /\ tmLast = [campaigns |-> [c \in TargetIds |->
                     IF store.campaigns[c].present
                     THEN LastSet(TargetsOf(store.campaigns[c]), 0) ELSE NeverSet],
                 defaults |-> [t \in TargetTypes |->
                     IF store.defaults[t].present
                     THEN LastSet(TargetsOf(store.defaults[t]), 0) ELSE NeverSet]]
    /\ tmRet = TmRet("init", "none", "none", EmptyMap)
    /\ tmOps = 0
TargetsIdle == TargetsLoaded(BuiltinTargets)

\* No single call of _determine_effect is being looked at.
NoEffect == Effect("none", 0, "none")
EffectIdle ==
    /\ effIn = [action_type |-> "none", baseline |-> Metrics(0, 0, 0, 0),
                current |-> Metrics(0, 0, 0, 0)]
    /\ effOut = NoEffect


\* ------------------------------------------------------- check_all_accounts
\* dict.get(key, []) on an account result
ResultGet(result, key) == IF key \in DOMAIN result THEN result[key] ELSE <<>>
\* What check_account does for one account: it returns (whatever happened
\* inside its try block) or it raises before the try block is entered.
AccountReturns(env, campaigns) ==
    [raises |-> FALSE, env |-> env, campaigns |-> campaigns]
AccountRaises ==
    [raises |-> TRUE, env |-> MonEnv(FALSE, "none", LlmRaises), campaigns |-> <<>>]
\* results["accounts"][account_id] = entry
PutAccount(accounts, account_id, entry) ==
    [a \in DOMAIN accounts \cup {account_id} |->
        IF a = account_id THEN entry ELSE accounts[a]]
\* _generate_summary
generate_summary(results) ==
    LET total_alerts == Len(results.alerts)
        total_opportunities == Len(results.opportunities)
        high_alerts == Cardinality({i \in 1..Len(results.alerts) :
                                      results.alerts[i].severity = "high"})
    IN  [status |-> IF high_alerts > 0 THEN "critical"
                    ELSE IF total_alerts > 0 THEN "warning"
                    ELSE IF total_opportunities > 0 THEN "opportunity"
                    ELSE "normal",
         total_alerts |-> total_alerts,
         high_alerts |-> high_alerts,
         total_opportunities |-> total_opportunities,
         accounts_checked |-> Cardinality(DOMAIN results.accounts)]
NoSummary == [status |-> "none"]
AllResults(accounts, alerts, opportunities, summary) ==
    [accounts |-> accounts, alerts |-> alerts, opportunities |-> opportunities,
     summary |-> summary]
\* Where a call of check_all_accounts stands: the results built so far, the
\* account ids check_account was called with, whether an exception left the
\* call and whether it returned.
AllOut(results, checked, raised, returned) ==
    [results |-> results, checked |-> checked, raised |-> raised,
     returned |-> returned]
\* The body of the try block of the loop once check_account has returned
\* account_result.
store_account_result(results, account_id, account_result) ==
    [results EXCEPT
        !.accounts = PutAccount(results.accounts, account_id, account_result),
        !.alerts = results.alerts \o ResultGet(account_result, "alerts"),
        !.opportunities =
            results.opportunities \o ResultGet(account_result, "opportunities")]
\* The body of the loop with the try block left out: an exception of
\* check_account leaves check_all_accounts.
check_next_account_unguarded(does, account_id, out) ==
    IF does.raises
    THEN AllOut(out.results, Append(out.checked, account_id), TRUE, FALSE)
    ELSE AllOut(store_account_result(out.results, account_id,
                    check_account(does.env, does.campaigns).result),
                Append(out.checked, account_id), FALSE, FALSE)
\* The body of the loop of check_all_accounts for one account id: does is
\* what check_account does for it.
check_next_account(does, account_id, out) ==
    AllOut(IF does.raises
           THEN [out.results EXCEPT !.accounts =
                    PutAccount(out.results.accounts, account_id,
                               ErrorOnly("raised"))]
           ELSE store_account_result(out.results, account_id,
                    check_account(does.env, does.campaigns).result),
           Append(out.checked, account_id), FALSE, FALSE)
EmptyAccounts == [a \in {} |-> ErrorOnly("none")]
\* check_all_accounts has been entered: results is initialised.
AllEntered ==
    AllOut(AllResults(EmptyAccounts, <<>>, <<>>, NoSummary), <<>>, FALSE, FALSE)

\* No call of check_all_accounts is being looked at.
AllIdle ==
    /\ allIn = [world |-> [a \in {} |-> AccountRaises], account_ids |-> <<>>]
    /\ allOut = AllEntered

\* ------------------------------------------------------ AutomationScheduler
\* The number of threads start() creates.
MaxThreads == 3
Threads == 1..MaxThreads
\* A thread with target _run_loop: where it stands, and the locals last_check
\* (FALSE for None) and last_daily_report ("none", "today", or "before" for a
\* date before today).
Loop(pc, last_check, last_daily_report) ==
    [pc |-> pc, last_check |-> last_check,
     last_daily_report |-> last_daily_report]
\* a thread not created yet
Unborn == Loop("unborn", FALSE, "none")
\* _run_loop entered: both locals are None and the while test comes next
LoopEntered == Loop("test", FALSE, "none")
\* the thread is executing _run_loop
Alive(loop) == loop.pc \notin {"unborn", "dead"}
\* the thread is inside run_check_now, called by the periodic check or by
\* run_daily_report
InCheck(loop) == loop.pc \in {"check", "report"}
\* AutomationScheduler.__init__
SchedulerIdle ==
    /\ schedRunning = FALSE
    /\ schedThread = 0
    /\ schedLoops = [t \in Threads |-> Unborn]
    /\ schedCaller = "idle"
\* ----------------------------------- two executors on one storage directory
\* The executor instances alive at the same time: each dashboard page run
\* constructs its own, on the default storage directory.
Instances == {1, 2}
\* The two JSON files of the queue, each holding the list last written.
Files(queue_file, history_file) ==
    [queue_file |-> queue_file, history_file |-> history_file]
\* An ActionQueue object: its in-memory lists.
Instance(open, queue, hist) == [open |-> open, pending |-> queue, history |-> hist]
NotConstructed == Instance(FALSE, <<>>, <<>>)
Decision(by, op, id) == [by |-> by, op |-> op, id |-> id]
\* Empty storage and no instance constructed.
SharedIdle ==
    /\ qFiles = Files(<<>>, <<>>)
    /\ qInst = [i \in Instances |-> NotConstructed]
    /\ qLog = <<>>

\* ------------------------------------- one scheduler loop against the clock
\* datetime fields of a time given in minutes since midnight of day 0
MinutesPerDay == 24 * 60
DateOf(t) == t \div MinutesPerDay
HourOf(t) == (t % MinutesPerDay) \div 60
MinuteOf(t) == t % 60
\* AutomationScheduler.schedule
Schedule(hour, minute, interval) ==
    [daily_report_hour |-> hour, daily_report_minute |-> minute,
     check_interval_minutes |-> interval]
\* The locals of _run_loop; NoVal stands for None.
TimedLoop(pc, t, last_check, last_daily_report) ==
    [pc |-> pc, now |-> t, last_check |-> last_check,
     last_daily_report |-> last_daily_report]
\* What the loop did: the days of the last call of run_daily_report and of
\* the last skipped report, the now of the last periodic check that
\* returned, and the number of the iteration that is running.
Seen(report_day, skip_day, check_ok, iteration) ==
    [report_day |-> report_day, skip_day |-> skip_day, check_ok |-> check_ok,
     iteration |-> iteration]
\* the length of the daily-report window, in minutes
report_window_minutes == 5
\* the window test of the daily report
in_report_window(schedule, t) ==
    /\ HourOf(t) = schedule.daily_report_hour
    /\ MinuteOf(t) >= schedule.daily_report_minute
    /\ MinuteOf(t) < schedule.daily_report_minute + report_window_minutes
\* the test that no report was made on the day of t
no_report_yet(last_daily_report, t) ==
    last_daily_report = NoVal \/ DateOf(last_daily_report) < DateOf(t)
\* the test of the periodic check
check_due(schedule, last_check, t) ==
    last_check = NoVal \/ t - last_check >= schedule.check_interval_minutes
\* No loop is being looked at.
ClockIdle ==
    /\ clkNow = 0
    /\ clkSchedule = Schedule(9, 0, 60)
    /\ clkLoop = TimedLoop("unborn", 0, NoVal, NoVal)
    /\ clkSeen = Seen(NoVal, NoVal, NoVal, 1)

\* ------------------------------------------------- operations of the executor
\* A freshly constructed executor on empty storage.
QueueInit ==
    /\ mode \in Modes
    /\ pending = <<>>
    /\ history = <<>>
    /\ nextId = 1
    /\ calls = <<>>
    /\ trail = [i \in 1..(MaxProposals + 1) |-> <<>>]
    /\ lastRet = Ret("init", 0, NoVal, NoResult)
    /\ directCount = 0

\* What a learner operation returned: the list analyze_pending_actions
\* returns, and the ids of the records whose metrics it failed to obtain.
LearnRet(op, analyzed, failed) ==
    [op |-> op, analyzed |-> analyzed, failed |-> failed]

\* A freshly constructed learner on empty storage.
LearnerInit ==
    /\ learnPending = <<>>
    /\ learnings = <<>>
    /\ learnSeq = 1
    /\ now = 0
    /\ learnRet = LearnRet("init", <<>>, {})
    /\ ticks = 0

\* No single call of execute is being looked at.
ExecIdle ==
    /\ exIn = [action |-> Act("none", "none", NoVal, NoVal, "none"),
               env |-> Env(FALSE, "none", "none", "none")]
    /\ exOut = NoOut

Init == QueueInit /\ LearnerInit /\ ExecIdle /\ MonIdle /\ TargetsIdle /\ ClockIdle /\ SharedIdle /\ SchedulerIdle /\ AllIdle /\ EffectIdle

\* ActionExecutor.propose_action -> ActionQueue.add_action
ProposeAction(action) ==
    /\ nextId <= MaxProposals
    /\ pending' = Append(pending, QueueRecord(nextId, action))
    /\ trail' = [trail EXCEPT ![nextId] = Append(@, "pending")]
    /\ nextId' = nextId + 1
    /\ lastRet' = Ret("propose", nextId, NoVal, NoResult)
    /\ UNCHANGED <<mode, history, calls, directCount>>
    /\ UNCHANGED learnVars
    /\ UNCHANGED outsideExecutor

\* approve_action whose approve leaves the record in the pending list.
ApproveAction_keeps_pending(action_id, env) ==
    LET i == FindPending(pending, action_id)
    IN  IF i = 0
        THEN /\ lastRet' = Ret("approve", action_id, NoVal,
                               Res(FALSE, FALSE, "not_found"))
             /\ UNCHANGED <<mode, pending, history, nextId, calls, trail,
                            directCount>>
             /\ UNCHANGED learnVars
             /\ UNCHANGED outsideExecutor
        ELSE LET approved == [pending[i] EXCEPT !.status = "approved"]
                 out == execute(approved.action, mode, env)
                 mk == mark_executed(Append(history, approved), action_id,
                                     out.ret)
             IN  /\ pending' = pending
                 /\ history' = mk.history
                 /\ calls' = calls \o Tagged(out.calls, action_id)
                 /\ trail' = IF mk.marked = 0
                             THEN [trail EXCEPT ![action_id] =
                                      Append(@, "approved")]
                             ELSE [[trail EXCEPT ![action_id] =
                                      Append(@, "approved")]
                                   EXCEPT ![mk.marked] = Append(@, "executed")]
                 /\ lastRet' = Ret("approve", action_id, NoVal,
                                   IF mk.raised THEN Raised("KeyError")
                                   ELSE out.ret)
                 /\ learnPending' = LearnerAfter(out, approved.action)
                 /\ learnSeq' = IF out.learn THEN learnSeq + 1 ELSE learnSeq
                 /\ UNCHANGED <<mode, nextId, directCount, learnings, now,
                                learnRet, ticks>>
                 /\ UNCHANGED outsideExecutor

\* ActionExecutor.approve_action: ActionQueue.approve, then execute, then
\* ActionQueue.mark_executed.
ApproveAction(action_id, env) ==
    LET i == FindPending(pending, action_id)
    IN  IF i = 0
        THEN /\ lastRet' = Ret("approve", action_id, NoVal,
                               Res(FALSE, FALSE, "not_found"))
             /\ UNCHANGED <<mode, pending, history, nextId, calls, trail,
                            directCount>>
             /\ UNCHANGED learnVars
             /\ UNCHANGED outsideExecutor
        ELSE LET approved == [pending[i] EXCEPT !.status = "approved"]
                 out == execute(approved.action, mode, env)
                 mk == mark_executed(Append(history, approved), action_id,
                                     out.ret)
             IN  /\ pending' = RemoveAt(pending, i)
                 /\ history' = mk.history
                 /\ calls' = calls \o Tagged(out.calls, action_id)
                 /\ trail' = IF mk.marked = 0
                             THEN [trail EXCEPT ![action_id] =
                                      Append(@, "approved")]
                             ELSE [[trail EXCEPT ![action_id] =
                                      Append(@, "approved")]
                                   EXCEPT ![mk.marked] = Append(@, "executed")]
                 /\ lastRet' = Ret("approve", action_id, NoVal,
                                   IF mk.raised THEN Raised("KeyError")
                                   ELSE out.ret)
                 /\ learnPending' = LearnerAfter(out, approved.action)
                 /\ learnSeq' = IF out.learn THEN learnSeq + 1 ELSE learnSeq
                 /\ UNCHANGED <<mode, nextId, directCount, learnings, now,
                                learnRet, ticks>>
                 /\ UNCHANGED outsideExecutor

\* reject that appends to the history but leaves the record in pending.
RejectAction_keeps_pending(action_id) ==
    LET i == FindPending(pending, action_id)
    IN  /\ i # 0
        /\ history' = Append(history, [pending[i] EXCEPT !.status = "rejected"])
        /\ trail' = [trail EXCEPT ![action_id] = Append(@, "rejected")]
        /\ lastRet' = Ret("reject", action_id, NoVal,
                          Res(TRUE, FALSE, "rejected"))
        /\ UNCHANGED <<mode, pending, nextId, calls, directCount>>
        /\ UNCHANGED learnVars
        /\ UNCHANGED outsideExecutor

\* ActionExecutor.reject_action -> ActionQueue.reject
RejectAction(action_id) ==
    LET i == FindPending(pending, action_id)
    IN  IF i = 0
        THEN /\ lastRet' = Ret("reject", action_id, NoVal,
                               Res(FALSE, FALSE, "not_found"))
             /\ UNCHANGED <<mode, pending, history, nextId, calls, trail,
                            directCount>>
             /\ UNCHANGED learnVars
             /\ UNCHANGED outsideExecutor
        ELSE /\ history' = Append(history,
                                  [pending[i] EXCEPT !.status = "rejected"])
             /\ pending' = RemoveAt(pending, i)
             /\ trail' = [trail EXCEPT ![action_id] = Append(@, "rejected")]
             /\ lastRet' = Ret("reject", action_id, NoVal,
                               Res(TRUE, FALSE, "rejected"))
             /\ UNCHANGED <<mode, nextId, calls, directCount>>
             /\ UNCHANGED learnVars
             /\ UNCHANGED outsideExecutor

\* clear_pending that empties the history list as well.
ClearPending_clears_history ==
    /\ pending' = <<>>
    /\ history' = <<>>
    /\ lastRet' = Ret("clear_pending", 0, NoVal, NoResult)
    /\ UNCHANGED <<mode, nextId, calls, trail, directCount>>
    /\ UNCHANGED learnVars
    /\ UNCHANGED outsideExecutor

\* ActionQueue.clear_pending
ClearPending ==
    /\ pending' = <<>>
    /\ lastRet' = Ret("clear_pending", 0, NoVal, NoResult)
    /\ UNCHANGED <<mode, history, nextId, calls, trail, directCount>>
    /\ UNCHANGED learnVars
    /\ UNCHANGED outsideExecutor

\* The budgets execute_budget_change_direct is called with.
DirectBudgets == {12000, 500001}

\* ActionExecutor.execute_budget_change_direct
ExecuteBudgetChangeDirect(campaign_id, new_budget, env) ==
    LET action == Act("budget_change", campaign_id, NoVal, new_budget, "none")
        safety == safety_check(action)
        out == execute_budget_change(action, env)
    IN  /\ directCount < MaxDirect
        /\ directCount' = directCount + 1
        /\ IF ~safety.passed
           THEN /\ lastRet' = Ret("budget_direct", 0, new_budget,
                                  Res(FALSE, FALSE, safety.reason))
                /\ UNCHANGED <<history, calls, learnPending, learnSeq>>
           ELSE /\ history' = Append(history, DirectRecord(action, out.ret))
                /\ calls' = calls \o Tagged(out.calls, 0)
                /\ lastRet' = Ret("budget_direct", 0, new_budget, out.ret)
                /\ learnPending' = LearnerAfter(out, action)
                /\ learnSeq' = IF out.learn THEN learnSeq + 1 ELSE learnSeq
        /\ UNCHANGED <<mode, pending, nextId, trail, learnings, now, learnRet,
                       ticks>>
        /\ UNCHANGED outsideExecutor

\* ActionExecutor.execute_status_change_direct
ExecuteStatusChangeDirect(campaign_id, new_status, env) ==
    LET action == Act("status_change", campaign_id, NoVal, NoVal, new_status)
        out == execute_status_change(action, new_status, env)
    IN  /\ directCount < MaxDirect
        /\ directCount' = directCount + 1
        /\ history' = Append(history, DirectRecord(action, out.ret))
        /\ calls' = calls \o Tagged(out.calls, 0)
        /\ lastRet' = Ret("status_direct", 0, NoVal, out.ret)
        /\ UNCHANGED <<mode, pending, nextId, trail>>
        /\ UNCHANGED learnVars
        /\ UNCHANGED outsideExecutor

Next ==
    \/ \E a \in ProposableActions : ProposeAction(a)
    \/ \E id \in 1..MaxProposals, env \in EnvScenarios : ApproveAction(id, env)
    \/ \E id \in 1..MaxProposals : RejectAction(id)
    \/ ClearPending
    \/ \E b \in DirectBudgets, env \in EnvScenarios :
          ExecuteBudgetChangeDirect("c1", b, env)
    \/ \E s \in {"ACTIVE", "PAUSED"}, env \in EnvScenarios :
          ExecuteStatusChangeDirect("c1", s, env)

Spec == Init /\ [][Next]_vars

\* ---------------------------------------------- ActionExecutor.execute alone
\* The action dicts execute is given: every type it dispatches on and one it
\* does not, with increase_percent and new_budget absent, below, on and over
\* the safety limits.
ExecTypes == {"budget_increase", "budget_change", "budget_decrease",
              "status_change", "pause", "resume", "creative_refresh"}
ExecActions ==
    { Act(t, c, pct, b, "none") :
        t \in ExecTypes, c \in {"c1", "none"},
        pct \in {NoVal, 20, 21, 50},
        b \in {NoVal, 15000, 500000, 500001} }

ExecuteInit ==
    /\ QueueInit
    /\ LearnerInit
    /\ exIn \in [action : ExecActions, env : Envs]
    /\ exOut = NoOut
    /\ MonIdle
    /\ TargetsIdle /\ ClockIdle /\ SharedIdle /\ SchedulerIdle /\ AllIdle /\ EffectIdle

\* One call execute(action) on the executor.
Execute ==
    /\ exOut = NoOut
    /\ exOut' = execute(exIn.action, mode, exIn.env)
    /\ UNCHANGED <<exIn, mode, pending, history, nextId, calls, trail, lastRet,
                   directCount>>
    /\ UNCHANGED learnVars
    /\ UNCHANGED monVars
    /\ UNCHANGED tmVars
    /\ UNCHANGED clockVars
    /\ UNCHANGED sharedVars
    /\ UNCHANGED schedVars
    /\ UNCHANGED allVars
    /\ UNCHANGED effVars

SpecExecute == ExecuteInit /\ [][Execute]_vars

\* --------------------------------------------- operations of the learner
\* The actions and baselines record_action_with_baseline is called with, and
\* the metrics the ad platform reports afterwards (roas in hundredths).
LearnActions ==
    { Act("budget_increase", "c1", 10, 12000, "none"),
      Act("pause", "c1", NoVal, NoVal, "none") }
LearnBaselines == { Metrics(20000, 1000, 200, 60) }
LearnCurrents == { Metrics(25000, 800, 250, 50), Metrics(25000, 1300, 150, 80) }
NoMetrics == Metrics(0, 0, 0, 0)
Fetches ==
    {Fetch(k, NoMetrics) : k \in FetchFailures}
        \cup {Fetch("data", c) : c \in LearnCurrents}

\* ActionLearner.record_action_with_baseline
RecordAction(action, baseline) ==
    /\ learnSeq <= MaxLearnRecords
    /\ learnPending' = Append(learnPending,
                              LearningRecord(learnSeq, action, baseline, now))
    /\ learnSeq' = learnSeq + 1
    /\ learnRet' = LearnRet("record", <<>>, {})
    /\ UNCHANGED <<learnings, now, ticks>>
    /\ UNCHANGED outsideLearner

\* The clock advances by d hours.
Tick(d) ==
    /\ ticks < MaxTicks
    /\ ticks' = ticks + 1
    /\ now' = now + d
    /\ UNCHANGED <<learnPending, learnings, learnSeq, learnRet>>
    /\ UNCHANGED outsideLearner

\* The loop of analyze_pending_actions from record i on: the learnings it
\* appends, in order.
RECURSIVE AnalyzedFrom(_, _, _, _)
AnalyzedFrom(seq, fetches, i, t) ==
    IF i > Len(seq) THEN <<>>
    ELSE LET result == analyze_action_effect(seq[i], fetches[i], t)
         IN  (IF IsDue(seq[i], t) /\ result.id # 0 THEN <<result>> ELSE <<>>)
                 \o AnalyzedFrom(seq, fetches, i + 1, t)

\* The loop of analyze_pending_actions: its still_pending list.
StillPending(seq, t) ==
    LET keep == {i \in 1..Len(seq) : ~IsDue(seq[i], t)}
        nth[k \in 0..Len(seq)] ==
            IF k = 0 THEN 0
            ELSE CHOOSE i \in keep : i > nth[k - 1] /\ \A j \in keep : j > nth[k - 1] => i <= j
    IN  [k \in 1..Cardinality(keep) |-> seq[nth[k]]]

\* ActionLearner.analyze_pending_actions; fetches[i] is what the collaborators
\* do for the i-th pending record.
AnalyzePending(connected, fetches) ==
    IF ~connected
    THEN /\ learnRet' = LearnRet("analyze", <<>>, {})
         /\ UNCHANGED <<learnPending, learnings, learnSeq, now, ticks>>
         /\ UNCHANGED outsideLearner
    ELSE LET analyzed == AnalyzedFrom(learnPending, fetches, 1, now)
         IN  /\ learnings' = learnings \o analyzed
             /\ learnPending' = StillPending(learnPending, now)
             /\ learnRet' = LearnRet("analyze", analyzed,
                    {learnPending[i].id : i \in
                        {j \in 1..Len(learnPending) :
                            /\ IsDue(learnPending[j], now)
                            /\ fetches[j].kind \in FetchFailures}})
             /\ UNCHANGED <<learnSeq, now, ticks>>
             /\ UNCHANGED outsideLearner

LearnInit ==
    /\ QueueInit /\ LearnerInit /\ ExecIdle /\ MonIdle /\ TargetsIdle /\ ClockIdle /\ SharedIdle /\ SchedulerIdle /\ AllIdle /\ EffectIdle
    /\ mode = "approval_required"

LearnNext ==
    \/ \E a \in LearnActions, b \in LearnBaselines : RecordAction(a, b)
    \/ \E d \in {1, analyze_delay_hours - 1} : Tick(d)
    \/ \E c \in BOOLEAN, f \in [1..Len(learnPending) -> Fetches] :
          AnalyzePending(c, f)

SpecLearn == LearnInit /\ [][LearnNext]_vars

\* ------------------------------------- PerformanceMonitor.check_account alone
\* The longest campaign list of an account made of the sample campaigns.
MaxCampaigns == 2

\* Today's spend under, on and over the noise floor.
Spends == {999, 1000, 5000}
\* Today's row of a campaign, varied in what its primary KPI reads: follows
\* (cpf on and between every threshold), conversion value (roas), conversions
\* (cpa); clicks make the CTR and CVR of the day.
TodayRows(kpi) ==
    CASE kpi = "cpf" ->
           { Row(sp, 10000, cl, 4, 0, fo) :
               sp \in Spends, cl \in {40, 100}, fo \in {0, 20, 40, 80, 100} }
      [] kpi = "roas" ->
           { Row(sp, 10000, cl, 4, val, 0) :
               sp \in Spends, cl \in {40, 100},
               val \in {0, 4000, 7500, 12500, 15000} }
      [] kpi = "cpa" ->
           { Row(sp, 10000, cl, cv, 8000, 0) :
               sp \in Spends, cl \in {40, 100}, cv \in {0, 3, 4, 5, 8} }
      [] OTHER ->
           { Row(sp, 10000, cl, cv, 0, 0) :
               sp \in Spends, cl \in {40, 100}, cv \in {1, 4} }
TodayFetches(kpi) ==
    {Insights("raise", <<>>), Insights("ok", <<>>)}
    \cup { Insights("ok", <<r>>) : r \in TodayRows(kpi) }
YesterdayFetches ==
    { Insights("ok", <<>>),
      Insights("ok", <<Row(4000, 10000, 100, 10, 8000, 50)>>),
      Insights("ok", <<Row(4000, 10000, 300, 6, 8000, 50)>>),
      Insights("ok", <<Row(4000, 10000, 300, 60, 8000, 50)>>) }
WeekFetches ==
    { Insights("raise", <<>>),
      Insights("ok", <<Row(14000, 35000, 350, 14, 28000, 280),
                       Row(7000, 35000, 350, 7, 14000, 140)>>) }
OwnEntries ==
    { OwnTargets(FALSE, FALSE, NoTargets),
      OwnTargets(TRUE, FALSE, NoTargets),
      OwnTargets(TRUE, TRUE, Targets(60, 250, 1000)),
      OwnTargets(TRUE, TRUE, Targets(BadVal, BadVal, BadVal)) }
Fetched(t, y, w) == [today |-> t, yesterday |-> y, last_7d |-> w]

\* Objective and advantage-plus flag of the campaigns looked at.
Profiles ==
    { <<"OUTCOME_TRAFFIC", FALSE>>, <<"CONVERSIONS", FALSE>>,
      <<"OUTCOME_SALES", FALSE>>, <<"REACH", FALSE>>,
      <<"APP_INSTALLS", FALSE>>, <<"OUTCOME_TRAFFIC", TRUE>>,
      <<"APP_INSTALLS", TRUE>> }
KpiOf(p) ==
    classify(Campaign("c1", p[1], p[2], Fetched(0, 0, 0), 0)).type_config.primary_kpi
CampaignInputs ==
    UNION { { Campaign("c1", p[1], p[2], Fetched(t, y, w), own) :
                t \in TodayFetches(KpiOf(p)), y \in YesterdayFetches,
                w \in WeekFetches, own \in OwnEntries } : p \in Profiles }

\* Sample campaigns, one for each way a campaign leaves the loop of
\* check_account.
Yesterday == Insights("ok", <<Row(4000, 10000, 100, 10, 8000, 50)>>)
NoRows == Insights("ok", <<>>)
Today(row) == Insights("ok", <<row>>)
Defaults == OwnTargets(TRUE, FALSE, NoTargets)
SampleCampaigns ==
    { \* under the noise floor
      Campaign("c1", "OUTCOME_TRAFFIC", FALSE,
               Fetched(Today(Row(999, 10000, 100, 4, 0, 0)), Yesterday, NoRows),
               Defaults),
      \* no data for today
      Campaign("c2", "OUTCOME_SALES", FALSE,
               Fetched(Insights("raise", <<>>), Yesterday, NoRows), Defaults),
      \* under the noise floor with a roas under roas_critical
      Campaign("c3", "OUTCOME_SALES", TRUE,
               Fetched(Today(Row(999, 10000, 100, 4, 500, 0)), Yesterday, NoRows),
               Defaults),
      \* roas 0.8: critical
      Campaign("c4", "OUTCOME_SALES", TRUE,
               Fetched(Today(Row(5000, 10000, 100, 10, 4000, 0)), Yesterday,
                       NoRows),
               Defaults),
      \* cpf on target: opportunity
      Campaign("c5", "OUTCOME_TRAFFIC", FALSE,
               Fetched(Today(Row(5000, 10000, 100, 4, 0, 100)), Yesterday,
                       NoRows),
               Defaults),
      \* roas 1.5: warning
      Campaign("c6", "OUTCOME_SALES", FALSE,
               Fetched(Today(Row(5000, 10000, 100, 10, 7500, 0)), Yesterday,
                       NoRows),
               Defaults),
      \* follows and a cpf of 125: one positive, one warning
      Campaign("c7", "OUTCOME_TRAFFIC", FALSE,
               Fetched(Today(Row(5000, 10000, 100, 4, 0, 40)), Yesterday, NoRows),
               Defaults),
      \* a target that is not a number
      Campaign("c8", "CONVERSIONS", FALSE,
               Fetched(Today(Row(5000, 10000, 100, 5, 8000, 0)), Yesterday,
                       NoRows),
               OwnTargets(TRUE, TRUE, Targets(BadVal, BadVal, BadVal))) }

SeqsUpTo(S, n) == UNION { [1..k -> S] : k \in 0..n }
\* The answers of the model: a bare list, a list inside a json fence after
\* prose, inside a bare fence and inside a fence never closed; prose alone,
\* prose before a bare list, prose inside a fence, and no text at all.
LlmReplies ==
    { LlmRaises,
      Reply("text", <<"list">>),
      Reply("text", <<"prose", "fence_json", "list", "fence", "prose">>),
      Reply("text", <<"fence", "list", "fence">>),
      Reply("text", <<"fence_json", "list">>),
      Reply("text", <<"prose">>),
      Reply("text", <<"prose", "list">>),
      Reply("text", <<"fence_json", "prose", "fence">>),
      Reply("text", <<>>) }
MonEnvs ==
    { MonEnv(c, m, r) :
        c \in BOOLEAN, m \in {"ok", "none", "raise"}, r \in LlmReplies }
MonInputs ==
    { [env |-> MonEnv(TRUE, "ok", Reply("text", <<"list">>)), campaigns |-> <<c>>] :
        c \in CampaignInputs }
    \cup { [env |-> e, campaigns |-> cs] :
             e \in MonEnvs, cs \in SeqsUpTo(SampleCampaigns, MaxCampaigns) }

MonitorInit ==
    /\ QueueInit
    /\ mode = "approval_required"
    /\ LearnerInit
    /\ ExecIdle
    /\ monIn \in MonInputs
    /\ monOut = NoMonOut
    /\ TargetsIdle /\ ClockIdle /\ SharedIdle /\ SchedulerIdle /\ AllIdle /\ EffectIdle

\* One call check_account(account_id) on the monitor.
CheckAccount ==
    /\ monOut = NoMonOut
    /\ monOut' = check_account(monIn.env, monIn.campaigns)
    /\ UNCHANGED monIn
    /\ UNCHANGED queueVars
    /\ UNCHANGED learnVars
    /\ UNCHANGED execVars
    /\ UNCHANGED tmVars
    /\ UNCHANGED clockVars
    /\ UNCHANGED sharedVars
    /\ UNCHANGED schedVars
    /\ UNCHANGED allVars
    /\ UNCHANGED effVars

SpecMonitor == MonitorInit /\ [][CheckAccount]_vars

\* ------------------------------------------- operations of the target manager
\* The number of set and remove calls looked at.
MaxTargetOps == 3

TargetValues == { Targets(60, NoVal, NoVal), Targets(NoVal, 250, 1000) }
\* The stores _load_targets can give: the built-in one, and a file that holds
\* an entry for c1 and no defaults.
InitialStores ==
    { BuiltinTargets,
      TargetStore([c \in TargetIds |->
                      IF c = "c1" THEN Entry("n", Targets(70, NoVal, NoVal), 0)
                      ELSE NoEntry],
                  [t \in TargetTypes |-> NoEntry]) }

SetCampaignTargets(campaign_id, campaign_name, targets) ==
    /\ tmOps < MaxTargetOps
    /\ tmOps' = tmOps + 1
    /\ tmTargets' = [tmTargets EXCEPT !.campaigns[campaign_id] =
                        Entry(campaign_name, targets, tmOps + 1)]
    /\ tmLast' = [tmLast EXCEPT !.campaigns[campaign_id] =
                        LastSet(targets, tmOps + 1)]
    /\ tmRet' = TmRet("set_campaign", campaign_id, "none", EmptyMap)
    /\ UNCHANGED <<queueVars, learnVars, execVars, monVars, effVars, allVars, schedVars, sharedVars, clockVars>>

SetDefaultTargets(campaign_type, targets) ==
    /\ tmOps < MaxTargetOps
    /\ tmOps' = tmOps + 1
    /\ tmTargets' = [tmTargets EXCEPT !.defaults[campaign_type] =
                        DefaultEntry(targets)]
    /\ tmLast' = [tmLast EXCEPT !.defaults[campaign_type] =
                        LastSet(targets, tmOps + 1)]
    /\ tmRet' = TmRet("set_default", "none", campaign_type, EmptyMap)
    /\ UNCHANGED <<queueVars, learnVars, execVars, monVars, effVars, allVars, schedVars, sharedVars, clockVars>>

RemoveCampaignTargets(campaign_id) ==
    /\ tmOps < MaxTargetOps
    /\ tmOps' = tmOps + 1
    /\ tmTargets' = [tmTargets EXCEPT !.campaigns[campaign_id] = NoEntry]
    /\ tmLast' = [tmLast EXCEPT !.campaigns[campaign_id] =
                        [NeverSet EXCEPT !.at = tmOps + 1]]
    /\ tmRet' = TmRet("remove", campaign_id, "none", EmptyMap)
    /\ UNCHANGED <<queueVars, learnVars, execVars, monVars, effVars, allVars, schedVars, sharedVars, clockVars>>

GetCampaignTargets(campaign_id, campaign_type) ==
    /\ tmRet' = TmRet("get", campaign_id, campaign_type,
                      lookup_campaign_targets(tmTargets, campaign_id,
                                              campaign_type))
    /\ UNCHANGED <<tmTargets, tmLast, tmOps>>
    /\ UNCHANGED <<queueVars, learnVars, execVars, monVars, effVars, allVars, schedVars, sharedVars, clockVars>>

TargetsInit ==
    /\ QueueInit
    /\ mode = "approval_required"
    /\ LearnerInit
    /\ ExecIdle
    /\ MonIdle
    /\ \E store \in InitialStores : TargetsLoaded(store)
    /\ ClockIdle
    /\ SharedIdle
    /\ SchedulerIdle
    /\ AllIdle
    /\ EffectIdle

TargetsNext ==
    \/ \E c \in TargetIds, t \in TargetValues : SetCampaignTargets(c, "n", t)
    \/ \E ty \in TargetTypes, t \in TargetValues : SetDefaultTargets(ty, t)
    \/ \E c \in TargetIds : RemoveCampaignTargets(c)
    \/ \E c \in TargetIds, ty \in TargetTypes : GetCampaignTargets(c, ty)

SpecTargets == TargetsInit /\ [][TargetsNext]_vars

\* ------------------------------------- ActionLearner._determine_effect alone
\* The action types a learning record can carry, and metrics absent or zero,
\* unchanged, changed by exactly what a rule asks, and better and worse than
\* the baseline by more than that.
EffectTypes == {"budget_increase", "budget_change", "budget_decrease",
                "pause", "resume", "status_change"}
EffectBaselines ==
    { Metrics(sp, cpa, roas, cpf) :
        sp \in {0, 20000}, cpa \in {0, 1000}, roas \in {0, 200}, cpf \in {0, 60} }
EffectCurrents ==
    { Metrics(sp, cpa, roas, cpf) :
        sp \in {0, 25000}, cpa \in {0, 800, 900, 1000, 1200, 1300},
        roas \in {0, 150, 160, 200, 220, 250}, cpf \in {0, 50, 60, 80} }

EffectInit ==
    /\ QueueInit
    /\ mode = "approval_required"
    /\ LearnerInit
    /\ ExecIdle
    /\ MonIdle
    /\ TargetsIdle /\ ClockIdle /\ SharedIdle /\ SchedulerIdle /\ AllIdle
    /\ effIn \in [action_type : EffectTypes, baseline : EffectBaselines,
                  current : EffectCurrents]
    /\ effOut = NoEffect

\* One call _determine_effect(action_type, baseline, current).
DetermineEffect ==
    /\ effOut = NoEffect
    /\ effOut' = determine_effect(effIn.action_type, effIn.baseline,
                                  effIn.current)
    /\ UNCHANGED effIn
    /\ UNCHANGED <<queueVars, learnVars, execVars, monVars, allVars, schedVars, sharedVars, clockVars>>
    /\ UNCHANGED tmVars
    /\ UNCHANGED clockVars
    /\ UNCHANGED sharedVars
    /\ UNCHANGED schedVars
    /\ UNCHANGED allVars

SpecEffect == EffectInit /\ [][DetermineEffect]_vars


\* ----------------------------------------- operations of check_all_accounts
\* The accounts, and the number of account ids passed in one call.
AccountIds == {"act_1", "act_2", "act_3"}
MaxAccounts == 3
CampaignNamed(id) == CHOOSE c \in SampleCampaigns : c.id = id
Answering == MonEnv(TRUE, "ok", Reply("text", <<"list">>))
\* What check_account does for an account: it returns an account with a
\* critical campaign, with an opportunity, with a campaign under the noise
\* floor; it returns the error of a missing connection, or of a judgment that
\* raises after an alert was collected; or it raises.
AccountBehaviours ==
    { AccountReturns(Answering, <<CampaignNamed("c4")>>),
      AccountReturns(Answering, <<CampaignNamed("c5")>>),
      AccountReturns(Answering, <<CampaignNamed("c1")>>),
      AccountReturns(MonEnv(FALSE, "ok", LlmRaises), <<>>),
      AccountReturns(Answering, <<CampaignNamed("c4"), CampaignNamed("c8")>>),
      AccountRaises }
AllInputs ==
    { [world |-> w, account_ids |-> ids] :
        w \in [AccountIds -> AccountBehaviours],
        ids \in SeqsUpTo(AccountIds, MaxAccounts) }

AllInit ==
    /\ QueueInit
    /\ mode = "approval_required"
    /\ LearnerInit
    /\ ExecIdle
    /\ MonIdle
    /\ TargetsIdle /\ ClockIdle /\ SharedIdle /\ SchedulerIdle /\ EffectIdle
    /\ allIn \in AllInputs
    /\ allOut = AllEntered

\* One pass of the loop of check_all_accounts.
CheckNextAccount ==
    /\ ~allOut.raised /\ ~allOut.returned
    /\ Len(allOut.checked) < Len(allIn.account_ids)
    /\ LET next_id == allIn.account_ids[Len(allOut.checked) + 1]
       IN  allOut' = check_next_account(allIn.world[next_id], next_id, allOut)
    /\ UNCHANGED allIn
    /\ UNCHANGED <<queueVars, learnVars, execVars, monVars, tmVars, effVars, schedVars, sharedVars, clockVars>>

\* After the loop: the summary is built and the results are returned.
ReturnResults ==
    /\ ~allOut.raised /\ ~allOut.returned
    /\ Len(allOut.checked) = Len(allIn.account_ids)
    /\ allOut' = [allOut EXCEPT !.results.summary = generate_summary(allOut.results),
                                !.returned = TRUE]
    /\ UNCHANGED allIn
    /\ UNCHANGED <<queueVars, learnVars, execVars, monVars, tmVars, effVars, schedVars, sharedVars, clockVars>>

AllNext == CheckNextAccount \/ ReturnResults
SpecAll == AllInit /\ [][AllNext]_vars

\* -------------------------------------------- operations of the scheduler
SchedulerInit ==
    /\ QueueInit
    /\ mode = "approval_required"
    /\ LearnerInit
    /\ ExecIdle
    /\ MonIdle
    /\ TargetsIdle /\ ClockIdle /\ SharedIdle /\ AllIdle /\ EffectIdle
    /\ SchedulerIdle

OutsideScheduler ==
    <<queueVars, learnVars, execVars, monVars, tmVars, allVars, effVars,
      sharedVars, clockVars>>

\* start(): nothing when _running is set; otherwise _running is set and a
\* new thread is created and started.
StartScheduler ==
    /\ schedCaller = "idle"
    /\ schedRunning \/ schedThread < MaxThreads
    /\ IF schedRunning
       THEN UNCHANGED <<schedRunning, schedThread, schedLoops>>
       ELSE /\ schedRunning' = TRUE
            /\ schedThread' = schedThread + 1
            /\ schedLoops' = [schedLoops EXCEPT ![schedThread + 1] = LoopEntered]
    /\ UNCHANGED schedCaller
    /\ UNCHANGED OutsideScheduler

\* stop() up to the join: _running is cleared; the join is entered when
\* _thread is not None.
StopScheduler ==
    /\ schedCaller = "idle"
    /\ schedRunning' = FALSE
    /\ schedCaller' = IF schedThread # 0 THEN "joining" ELSE "idle"
    /\ UNCHANGED <<schedThread, schedLoops>>
    /\ UNCHANGED OutsideScheduler

\* join(timeout=5) returns: the thread has ended, or five seconds have passed
\* while it sleeps its minute or waits for a check or a report to return.
JoinReturns ==
    /\ schedCaller = "joining"
    /\ schedLoops[schedThread].pc \in {"dead", "sleep", "check", "report"}
    /\ schedCaller' = "idle"
    /\ UNCHANGED <<schedRunning, schedThread, schedLoops>>
    /\ UNCHANGED OutsideScheduler

\* while self._running
LoopTest(t) ==
    /\ schedLoops[t].pc = "test"
    /\ schedLoops' = [schedLoops EXCEPT
                         ![t].pc = IF schedRunning THEN "periodic" ELSE "dead"]
    /\ UNCHANGED <<schedRunning, schedThread, schedCaller>>
    /\ UNCHANGED OutsideScheduler

\* The periodic check: run_check_now is called when last_check is None or
\* the interval has elapsed since it.
PeriodicCheck(t) ==
    /\ schedLoops[t].pc = "periodic"
    /\ \E elapsed \in BOOLEAN :
         schedLoops' = [schedLoops EXCEPT
             ![t].pc = IF ~schedLoops[t].last_check \/ elapsed
                       THEN "check" ELSE "daily"]
    /\ UNCHANGED <<schedRunning, schedThread, schedCaller>>
    /\ UNCHANGED OutsideScheduler

\* run_check_now of the periodic check returns, or what follows it raises
\* into the except clause; last_check is set once run_check_now has returned.
CheckReturns(t) ==
    /\ schedLoops[t].pc = "check"
    /\ \E returned \in BOOLEAN :
         schedLoops' = [schedLoops EXCEPT
             ![t].pc = "daily",
             ![t].last_check = schedLoops[t].last_check \/ returned]
    /\ UNCHANGED <<schedRunning, schedThread, schedCaller>>
    /\ UNCHANGED OutsideScheduler

\* The daily report: inside the window, when no report was made today,
\* run_daily_report is called if send_daily is set; otherwise the day is
\* marked.
DailyReport(t) ==
    /\ schedLoops[t].pc = "daily"
    /\ \E in_window \in BOOLEAN, send_daily \in BOOLEAN :
         schedLoops' = [schedLoops EXCEPT ![t] =
             IF in_window /\ schedLoops[t].last_daily_report # "today"
             THEN IF send_daily
                  THEN [schedLoops[t] EXCEPT !.pc = "report"]
                  ELSE [schedLoops[t] EXCEPT !.pc = "sleep",
                                             !.last_daily_report = "today"]
             ELSE [schedLoops[t] EXCEPT !.pc = "sleep"]]
    /\ UNCHANGED <<schedRunning, schedThread, schedCaller>>
    /\ UNCHANGED OutsideScheduler

\* run_daily_report, which calls run_check_now, returns or raises;
\* last_daily_report is set when it returned.
ReportReturns(t) ==
    /\ schedLoops[t].pc = "report"
    /\ \E returned \in BOOLEAN :
         schedLoops' = [schedLoops EXCEPT
             ![t].pc = "sleep",
             ![t].last_daily_report = IF returned THEN "today" ELSE @]
    /\ UNCHANGED <<schedRunning, schedThread, schedCaller>>
    /\ UNCHANGED OutsideScheduler

\* time.sleep(60) returns
Wake(t) ==
    /\ schedLoops[t].pc = "sleep"
    /\ schedLoops' = [schedLoops EXCEPT ![t].pc = "test"]
    /\ UNCHANGED <<schedRunning, schedThread, schedCaller>>
    /\ UNCHANGED OutsideScheduler

\* Midnight passes: a report of today is now a report of an earlier day.
NewDay ==
    /\ \E t \in Threads : schedLoops[t].last_daily_report = "today"
    /\ schedLoops' = [t \in Threads |->
                         IF schedLoops[t].last_daily_report = "today"
                         THEN [schedLoops[t] EXCEPT !.last_daily_report = "before"]
                         ELSE schedLoops[t]]
    /\ UNCHANGED <<schedRunning, schedThread, schedCaller>>
    /\ UNCHANGED OutsideScheduler

SchedulerNext ==
    \/ StartScheduler
    \/ StopScheduler
    \/ JoinReturns
    \/ NewDay
    \/ \E t \in Threads :
         \/ LoopTest(t)
         \/ PeriodicCheck(t)
         \/ CheckReturns(t)
         \/ DailyReport(t)
         \/ ReportReturns(t)
         \/ Wake(t)

SpecScheduler == SchedulerInit /\ [][SchedulerNext]_vars
\* ----------------------------------- two executors on one storage directory
\* The most approve and reject calls that find their record.
MaxDecisions == 3

SharedInit ==
    /\ QueueInit
    /\ mode = "approval_required"
    /\ LearnerInit
    /\ ExecIdle
    /\ MonIdle
    /\ TargetsIdle /\ ClockIdle /\ SchedulerIdle /\ AllIdle /\ EffectIdle
    /\ SharedIdle

\* ActionExecutor.__init__ -> ActionQueue.__init__: both lists are loaded
\* from the files; a page run constructs a new instance in the place of the
\* one it had.
Construct(i) ==
    /\ qInst' = [qInst EXCEPT ![i] = Instance(TRUE, qFiles.queue_file,
                                              qFiles.history_file)]
    /\ lastRet' = Ret("construct", 0, NoVal, NoResult)
    /\ UNCHANGED <<qFiles, qLog>>
    /\ UNCHANGED <<mode, pending, history, nextId, calls, trail, directCount>>
    /\ UNCHANGED <<learnVars, execVars, monVars, tmVars, effVars, allVars,
                   schedVars, clockVars>>

\* propose_action on instance i: add_action appends to the list in memory
\* and writes that list to the queue file.
InstPropose(i, action) ==
    /\ qInst[i].open
    /\ nextId <= MaxProposals
    /\ LET queue == Append(qInst[i].pending, QueueRecord(nextId, action))
       IN  /\ qInst' = [qInst EXCEPT ![i].pending = queue]
           /\ qFiles' = [qFiles EXCEPT !.queue_file = queue]
    /\ nextId' = nextId + 1
    /\ lastRet' = Ret("propose", nextId, NoVal, NoResult)
    /\ UNCHANGED qLog
    /\ UNCHANGED <<mode, pending, history, calls, trail, directCount>>
    /\ UNCHANGED <<learnVars, execVars, monVars, tmVars, effVars, allVars,
                   schedVars, clockVars>>

\* approve_action on instance i: approve scans the list in memory, moves the
\* record and writes both files; execute; mark_executed writes the history
\* file again.
InstApprove(i, action_id, env) ==
    LET k == FindPending(qInst[i].pending, action_id)
    IN  /\ qInst[i].open
        /\ IF k = 0
           THEN /\ lastRet' = Ret("approve", action_id, NoVal,
                                  Res(FALSE, FALSE, "not_found"))
                /\ UNCHANGED <<qFiles, qInst, qLog, calls>>
           ELSE LET approved == [qInst[i].pending[k] EXCEPT !.status = "approved"]
                    out == execute(approved.action, mode, env)
                    mk == mark_executed(Append(qInst[i].history, approved),
                                        action_id, out.ret)
                    queue == RemoveAt(qInst[i].pending, k)
                IN  /\ Len(qLog) < MaxDecisions
                    /\ qInst' = [qInst EXCEPT ![i] = Instance(TRUE, queue,
                                                              mk.history)]
                    /\ qFiles' = Files(queue, mk.history)
                    /\ calls' = calls \o Tagged(out.calls, action_id)
                    /\ qLog' = Append(qLog, Decision(i, "approve", action_id))
                    /\ lastRet' = Ret("approve", action_id, NoVal, out.ret)
        /\ UNCHANGED <<mode, pending, history, nextId, trail, directCount>>
        /\ UNCHANGED <<learnVars, execVars, monVars, tmVars, effVars, allVars,
                       schedVars, clockVars>>

\* reject_action on instance i.
InstReject(i, action_id) ==
    LET k == FindPending(qInst[i].pending, action_id)
    IN  /\ qInst[i].open
        /\ IF k = 0
           THEN /\ lastRet' = Ret("reject", action_id, NoVal,
                                  Res(FALSE, FALSE, "not_found"))
                /\ UNCHANGED <<qFiles, qInst, qLog>>
           ELSE LET queue == RemoveAt(qInst[i].pending, k)
                    hist == Append(qInst[i].history,
                                   [qInst[i].pending[k] EXCEPT
                                       !.status = "rejected"])
                IN  /\ Len(qLog) < MaxDecisions
                    /\ qInst' = [qInst EXCEPT ![i] = Instance(TRUE, queue, hist)]
                    /\ qFiles' = Files(queue, hist)
                    /\ qLog' = Append(qLog, Decision(i, "reject", action_id))
                    /\ lastRet' = Ret("reject", action_id, NoVal,
                                      Res(TRUE, FALSE, "rejected"))
        /\ UNCHANGED <<mode, pending, history, nextId, calls, trail, directCount>>
        /\ UNCHANGED <<learnVars, execVars, monVars, tmVars, effVars, allVars,
                       schedVars, clockVars>>

\* The calls are taken one at a time: every one runs from its first line to
\* its last before the next starts.
SharedNext ==
    \/ \E i \in Instances : Construct(i)
    \/ \E i \in Instances : InstPropose(i, Act("pause", "c1", NoVal, NoVal, "none"))
    \/ \E i \in Instances, id \in 1..MaxProposals, env \in EnvScenarios :
          InstApprove(i, id, env)
    \/ \E i \in Instances, id \in 1..MaxProposals : InstReject(i, id)

SpecShared == SharedInit /\ [][SharedNext]_vars

\* ------------------------------------- one scheduler loop against the clock
\* The most iterations of the loop that are followed.
MaxIterations == 6
\* set_schedule: a report window at the start of an hour, one cut short by
\* the end of its hour, each with a check interval shorter and longer than
\* the window.
Schedules ==
    { Schedule(0, 0, 3), Schedule(23, 57, 3), Schedule(0, 0, 8) }
\* The times start() is called at on day 0: before and inside the windows.
StartTimes == { 23 * 60 + 50, 23 * 60 + 58, 1 }
\* The minutes from one reading of the clock to the next: the minute of
\* time.sleep(60), more when the calls of the iteration took minutes, and a
\* day when the host was suspended meanwhile.
IterationMinutes == {1, 6, MinutesPerDay}

ClockInit ==
    /\ QueueInit
    /\ mode = "approval_required"
    /\ LearnerInit
    /\ ExecIdle
    /\ MonIdle
    /\ TargetsIdle /\ SharedIdle /\ SchedulerIdle /\ AllIdle /\ EffectIdle
    /\ clkNow \in StartTimes
    /\ clkSchedule \in Schedules
    /\ clkLoop = TimedLoop("top", 0, NoVal, NoVal)
    /\ clkSeen = Seen(NoVal, NoVal, NoVal, 1)

ClockFrame ==
    /\ UNCHANGED <<queueVars, learnVars, execVars, monVars, tmVars, allVars,
                   effVars, schedVars, sharedVars>>
    /\ UNCHANGED clkSchedule

\* while self._running: now = datetime.now()
TimedLoopTop ==
    /\ clkLoop.pc = "top"
    /\ clkLoop' = [clkLoop EXCEPT !.pc = "periodic", !.now = clkNow]
    /\ UNCHANGED <<clkNow, clkSeen>>
    /\ ClockFrame

\* The periodic check is entered when it is due.
TimedPeriodicCheck ==
    /\ clkLoop.pc = "periodic"
    /\ clkLoop' = [clkLoop EXCEPT
                      !.pc = IF check_due(clkSchedule, clkLoop.last_check,
                                          clkLoop.now)
                             THEN "check" ELSE "daily"]
    /\ UNCHANGED <<clkNow, clkSeen>>
    /\ ClockFrame

\* run_check_now returns and last_check is set, or it raises into the
\* except clause.
TimedCheckReturns(returned) ==
    /\ clkLoop.pc = "check"
    /\ UNCHANGED clkNow
    /\ clkLoop' = [clkLoop EXCEPT
                      !.pc = "daily",
                      !.last_check = IF returned THEN clkLoop.now ELSE @]
    /\ clkSeen' = [clkSeen EXCEPT
                      !.check_ok = IF returned THEN clkLoop.now ELSE @]
    /\ ClockFrame

\* The daily report: inside the window, when no report was made today,
\* run_daily_report is called if send_daily is set (the notification
\* settings are read anew in every iteration); otherwise the day is marked.
TimedDailyReport(send_daily) ==
    /\ clkLoop.pc = "daily"
    /\ IF /\ in_report_window(clkSchedule, clkLoop.now)
          /\ no_report_yet(clkLoop.last_daily_report, clkLoop.now)
       THEN IF send_daily
            THEN /\ clkLoop' = [clkLoop EXCEPT !.pc = "report"]
                 /\ clkSeen' = [clkSeen EXCEPT
                                   !.report_day = DateOf(clkLoop.now)]
            ELSE /\ clkLoop' = [clkLoop EXCEPT
                                   !.pc = "sleep",
                                   !.last_daily_report = clkLoop.now]
                 /\ clkSeen' = [clkSeen EXCEPT
                                   !.skip_day = DateOf(clkLoop.now)]
       ELSE /\ clkLoop' = [clkLoop EXCEPT !.pc = "sleep"]
            /\ UNCHANGED clkSeen
    /\ UNCHANGED clkNow
    /\ ClockFrame

\* run_daily_report returns and last_daily_report is set, or it raises into
\* the except clause.
TimedReportReturns(returned) ==
    /\ clkLoop.pc = "report"
    /\ clkLoop' = [clkLoop EXCEPT
                      !.pc = "sleep",
                      !.last_daily_report = IF returned THEN clkLoop.now ELSE @]
    /\ UNCHANGED <<clkNow, clkSeen>>
    /\ ClockFrame

\* time.sleep(60) returns.
TimedSleep(minutes) ==
    /\ clkLoop.pc = "sleep"
    /\ clkSeen.iteration < MaxIterations
    /\ clkNow' = clkNow + minutes
    /\ clkLoop' = [clkLoop EXCEPT !.pc = "top"]
    /\ clkSeen' = [clkSeen EXCEPT !.iteration = @ + 1]
    /\ ClockFrame

ClockNext ==
    \/ TimedLoopTop
    \/ TimedPeriodicCheck
    \/ \E returned \in BOOLEAN : TimedCheckReturns(returned)
    \/ \E send_daily \in BOOLEAN : TimedDailyReport(send_daily)
    \/ \E returned \in BOOLEAN : TimedReportReturns(returned)
    \/ \E minutes \in IterationMinutes : TimedSleep(minutes)

SpecClock == ClockInit /\ [][ClockNext]_vars

\* ------------------------------------------------------------------ claims
IsPrefix(s, t) == Len(s) <= Len(t) /\ \A i \in 1..Len(s) : s[i] = t[i]
Last(s) == s[Len(s)]
Range(s) == {s[i] : i \in 1..Len(s)}

OverLimit(action) ==
    \/ action.increase_percent > max_budget_increase_percent
    \/ action.new_budget > max_daily_budget

\* C1: for every budget_increase action and every mode other than
\* notify_only, if increase_percent > 20 or new_budget > 500000 then execute
\* returns success = false and invokes no update_campaign_budget call.
C1_SafetyBound ==
    (/\ exOut # NoOut
     /\ exIn.action.type = "budget_increase"
     /\ mode # "notify_only"
     /\ OverLimit(exIn.action))
    => /\ exOut.ret.success = FALSE
       /\ \A i \in 1..Len(exOut.calls) :
             exOut.calls[i].op # "update_campaign_budget"

\* C1 witness: a budget_increase within the percent limit but over the daily
\* budget limit, all collaborators working, was executed and refused.
C1_Witness ==
    /\ exOut # NoOut
    /\ exIn.action = Act("budget_increase", "c1", 20, 500001, "none")
    /\ mode = "auto_execute"
    /\ exIn.env = Env(TRUE, "ok", "data", "true")
    /\ exOut.ret = Res(FALSE, FALSE, "new_budget_over_limit")
    /\ exOut.calls = <<>>

\* The queue records (those with an id) of pending and history.
QueueRecords(seq) == {seq[i] : i \in {j \in 1..Len(seq) : HasId(seq[j])}}
ProposedIds == 1..(nextId - 1)
CallsFor(id) == {i \in 1..Len(calls) : calls[i].forId = id}
WasRejected(id) == "rejected" \in Range(trail[id])

\* C2: once reject_action(id) has succeeded, in every later state the record
\* is in history with status rejected, it is not in pending, an
\* approve_action(id) returns the not-found failure, and no ad-platform call
\* was made for that action.
C2_RejectedStaysRejected ==
    \A id \in ProposedIds :
        WasRejected(id) =>
            /\ \E r \in QueueRecords(history) :
                  r.id = id /\ r.status = "rejected"
            /\ \A r \in QueueRecords(pending) : r.id # id
            /\ (lastRet.op = "approve" /\ lastRet.id = id)
                  => lastRet.ret = Res(FALSE, FALSE, "not_found")
            /\ CallsFor(id) = {}

\* C2 witness: action 1 was rejected, later another action was approved and
\* reached the ad platform, and then approve_action(1) was tried.
C2_Witness ==
    /\ WasRejected(1)
    /\ CallsFor(2) # {}
    /\ lastRet.op = "approve" /\ lastRet.id = 1
    /\ lastRet.ret.msg = "not_found"

\* C3: the statuses assigned to a proposed record form a prefix of
\* pending -> approved -> executed or of pending -> rejected, and the status
\* a record carries is the last one assigned to it.
C3_StatusOrder ==
    /\ \A id \in 1..MaxProposals :
          \/ IsPrefix(trail[id], <<"pending", "approved", "executed">>)
          \/ IsPrefix(trail[id], <<"pending", "rejected">>)
    /\ \A r \in QueueRecords(pending) \cup QueueRecords(history) :
          trail[r.id] # <<>> /\ r.status = Last(trail[r.id])

\* C3 witness: one record went pending -> approved -> executed after another
\* had gone pending -> rejected.
C3_Witness ==
    /\ trail[1] = <<"pending", "rejected">>
    /\ trail[2] = <<"pending", "approved", "executed">>
    /\ Len(history) = 2 /\ history[1].id = 1 /\ history[2].id = 2

\* C4: in every reachable queue state, histories holding direct-execution
\* records included, approve_action on a pending id ends with that record in
\* history with status executed, an executed_at timestamp and the result that
\* was returned.
C4_ApproveEndsExecuted ==
    (lastRet.op = "approve" /\ lastRet.ret.msg # "not_found")
    => \E r \in QueueRecords(history) :
          /\ r.id = lastRet.id
          /\ r.status = "executed"
          /\ r.executed_at
          /\ r.result = lastRet.ret

\* C5: execute_budget_change_direct with new_budget > 500000 is refused with
\* a reason and invokes no update_campaign_budget call.
C5_DirectSafetyBound ==
    /\ (lastRet.op = "budget_direct" /\ lastRet.arg > max_daily_budget)
          => lastRet.ret = Res(FALSE, FALSE, "new_budget_over_limit")
    /\ \A i \in CallsFor(0) :
          calls[i].call.op = "update_campaign_budget"
             => calls[i].call.value <= max_daily_budget

LearnIds(seq) == {seq[i].id : i \in 1..Len(seq)}

\* C7: a record created by record_action_with_baseline at time t has status
\* pending_analysis and analyze_after = t + 24h, and no step taken before its
\* analyze_after removes it from the pending list or puts it into the
\* learned-history store; every learning was analyzed at or after that time.
C7_NotAnalyzedEarly ==
    [][/\ \A r \in Range(learnPending') \ Range(learnPending) :
             /\ r.status = "pending_analysis"
             /\ r.executed_at = now
             /\ r.analyze_after = now + 24
       /\ \A r \in Range(learnPending) :
             now' < r.analyze_after =>
                 /\ r \in Range(learnPending')
                 /\ r.id \notin LearnIds(learnings')
       /\ \A l \in Range(learnings') : l.analyzed_at >= l.executed_at + 24
      ]_vars

\* C7 witness: one call of analyze_pending_actions analyzed a record that was
\* due and left one that was one hour short of its analyze_after pending.
C7_Witness ==
    /\ learnRet.op = "analyze"
    /\ Len(learnRet.analyzed) = 1
    /\ Len(learnings) = 1
    /\ learnings[1].analyzed_at = learnings[1].executed_at + 24
    /\ Len(learnPending) = 1
    /\ learnPending[1].analyze_after = now + 1

\* C8: a record that was due when analyze_pending_actions ran but whose
\* post-action metrics could not be obtained is still in the pending list
\* after the call.
C8_FailedFetchStaysPending ==
    learnRet.op = "analyze" => learnRet.failed \subseteq LearnIds(learnPending)

\* today's spend of an analyzed campaign, as the judgment read it
SpendToday(campaign_result) ==
    PerfGet(PeriodGet(campaign_result.periods, "today"), "spend")
\* the ids an account result lists under key
ListedIds(result, key) ==
    IF key = "campaigns"
    THEN {result[key][i].id : i \in 1..Len(result[key])}
    ELSE {result[key][i].campaign_id : i \in 1..Len(result[key])}

C10_NoiseFloor ==
    \A i \in 1..Len(monOut.analyzed) :
        LET campaign_result == monOut.analyzed[i]
            j == campaign_result.judgment
        IN  SpendToday(campaign_result) < MIN_DAILY_SPEND
            => /\ ~j.raised
               /\ j.status = "insufficient_data"
               /\ j.issues = <<>>
               /\ j.positives = <<>>
               /\ j.comparisons = <<>>
               /\ \A key \in {"campaigns", "alerts", "opportunities"} :
                     campaign_result.id \notin ListedIds(monOut.result, key)

\* an account pass met a campaign under the noise floor whose roas would
\* have been critical, skipped it, and listed another campaign
C10_Witness ==
    /\ Len(monOut.analyzed) = 2
    /\ \E i \in 1..2 :
          LET campaign_result == monOut.analyzed[i]
          IN  /\ SpendToday(campaign_result) < MIN_DAILY_SPEND
              /\ PerfGet(campaign_result.periods.today, "roas") > 0
              /\ PerfGet(campaign_result.periods.today, "roas") < 100
              /\ campaign_result.judgment.status = "insufficient_data"
    /\ Len(monOut.result.campaigns) = 1
    /\ Len(monOut.result.alerts) = 1

\* the judgments of a pass that reached the verdict
Verdicts ==
    {monOut.analyzed[i].judgment : i \in
        {k \in 1..Len(monOut.analyzed) :
            /\ ~monOut.analyzed[k].judgment.raised
            /\ monOut.analyzed[k].judgment.status # "insufficient_data"}}

\* C11: the verdict follows from the counts alone: a critical issue gives
\* critical/high however many positives there are; else more positives than
\* warnings gives opportunity/none; else more warnings than positives gives
\* warning/medium; severity is high exactly with status critical and medium
\* exactly with status warning.
C11_VerdictFromCounts ==
    \A j \in Verdicts :
        LET c == Count(j.issues, "critical")
            w == Count(j.issues, "warning")
            p == Len(j.positives)
        IN  /\ c > 0 => j.status = "critical" /\ j.severity = "high"
            /\ (c = 0 /\ p > w) => j.status = "opportunity" /\ j.severity = "none"
            /\ (c = 0 /\ w > p) => j.status = "warning" /\ j.severity = "medium"
            /\ j.severity = "high" <=> j.status = "critical"
            /\ j.severity = "medium" <=> j.status = "warning"

\* a judgment with a critical issue and a positive came out critical
C11_Witness ==
    \E j \in Verdicts :
        /\ Count(j.issues, "critical") > 0
        /\ Len(j.positives) > 0
        /\ j.status = "critical"

\* C12: get_campaign_targets(c, type) returns the targets last set for c if
\* c was not removed since, otherwise the default last set for the type,
\* otherwise an empty map; a default set later does not change what a
\* campaign with an entry of its own gets, and a removed campaign gets the
\* type default.
C12_TargetsPrecedence ==
    tmRet.op = "get" =>
        LET own == tmLast.campaigns[tmRet.id]
            default == tmLast.defaults[tmRet.type]
        IN  /\ own.set => TargetsOf(tmRet.value) = own.targets
            /\ (~own.set /\ default.set) =>
                   tmRet.value = DefaultEntry(default.targets)
            /\ (~own.set /\ ~default.set) => tmRet.value = EmptyMap

\* a campaign got its own targets although a different default for the type
\* was set after them
C12_Witness ==
    /\ tmRet.op = "get"
    /\ tmLast.campaigns[tmRet.id].set
    /\ tmLast.defaults[tmRet.type].set
    /\ tmLast.defaults[tmRet.type].at > tmLast.campaigns[tmRet.id].at
    /\ tmLast.campaigns[tmRet.id].at > 0
    /\ tmLast.defaults[tmRet.type].targets # tmLast.campaigns[tmRet.id].targets
    /\ TargetsOf(tmRet.value) = tmLast.campaigns[tmRet.id].targets

\* C13: for action type pause, _determine_effect returns verdict improved
\* with confidence 0.9 whatever the baseline and the current metrics are,
\* all zero and worse than the baseline included.
C13_PauseImproved ==
    (effOut # NoEffect /\ effIn.action_type = "pause")
        => effOut.verdict = "improved" /\ effOut.confidence = 9

\* a pause whose cpa rose by 30 % and whose baseline spend was zero was
\* judged improved
C13_Witness ==
    /\ effIn.action_type = "pause"
    /\ effIn.baseline.spend = 0
    /\ effIn.baseline.cpa = 1000
    /\ effIn.current.cpa = 1300
    /\ effOut.verdict = "improved"

\* C14: every operation whose ad-platform mutation succeeds, a budget change
\* or a status change, approved or direct, hands the learner one more record
\* with status pending_analysis.
C14_SuccessIsLearned ==
    [][ (Len(calls') > Len(calls) /\ lastRet'.ret.success)
            => /\ Len(learnPending') = Len(learnPending) + 1
               /\ Last(learnPending').status = "pending_analysis" ]_vars

\* the answers of the model that raise or hold no JSON that parses, bare or
\* fenced
FailingReplies ==
    { LlmRaises, Reply("text", <<"prose">>), Reply("text", <<"prose", "list">>),
      Reply("text", <<"fence_json", "prose", "fence">>), Reply("text", <<>>) }
\* the ids of the analyzed campaigns whose judgment has one of the statuses
AnalyzedIds(statuses) ==
    {monOut.analyzed[i].id : i \in
        {k \in 1..Len(monOut.analyzed) :
            /\ ~monOut.analyzed[k].judgment.raised
            /\ monOut.analyzed[k].judgment.status \in statuses}}
\* a pass that reached _generate_recommendations
AskedForRecommendations ==
    /\ monOut # NoMonOut
    /\ monIn.env.connected
    /\ monIn.env.managers = "ok"
    /\ \A i \in 1..Len(monOut.analyzed) : ~monOut.analyzed[i].judgment.raised
    /\ AnalyzedIds({"critical", "opportunity"}) # {}

\* C15: when the model raises or answers with text that is not JSON,
\* _generate_recommendations gives an empty list and raises nothing:
\* check_account returns without an error, with every campaign, alert and
\* opportunity it computed.
C15_LlmFailureGivesNoRecommendations ==
    (AskedForRecommendations /\ monIn.env.llm \in FailingReplies)
        => /\ monOut.result.recommendations = <<>>
           /\ monOut.result.error = "none"
           /\ Len(monOut.result.campaigns)
                = Len(monOut.analyzed)
                    - Cardinality({i \in 1..Len(monOut.analyzed) :
                        monOut.analyzed[i].judgment.status = "insufficient_data"})
           /\ ListedIds(monOut.result, "campaigns")
                = AnalyzedIds({"critical", "opportunity", "warning", "normal"})
           /\ ListedIds(monOut.result, "alerts") = AnalyzedIds({"critical"})
           /\ ListedIds(monOut.result, "opportunities")
                = AnalyzedIds({"opportunity"})

\* the model answered with prose inside a json fence for an account with an
\* alert and an opportunity; both are returned, with no recommendation
C15_Witness ==
    /\ AskedForRecommendations
    /\ monIn.env.llm = Reply("text", <<"fence_json", "prose", "fence">>)
    /\ Len(monOut.result.alerts) = 1
    /\ Len(monOut.result.opportunities) = 1
    /\ monOut.result.recommendations = <<>>

\* the call of check_all_accounts is over: it returned or it raised
AllDone == allOut.returned \/ allOut.raised
\* the account ids for which check_account raised or returned an error
FailedAccounts ==
    {a \in Range(allIn.account_ids) :
        \/ allIn.world[a].raises
        \/ check_account(allIn.world[a].env, allIn.world[a].campaigns).result.error
             # "none"}

\* C16: check_all_accounts calls check_account for every account id passed
\* in, whatever happened with the ids before it; it never raises, its result
\* has an entry for every id passed in and no other, and the entry of an
\* account whose check failed carries an error.
C16_EveryAccountChecked ==
    /\ ~allOut.raised
    /\ IsPrefix(allOut.checked, allIn.account_ids)
    /\ AllDone =>
        /\ allOut.checked = allIn.account_ids
        /\ DOMAIN allOut.results.accounts = Range(allIn.account_ids)
        /\ \A a \in FailedAccounts :
               /\ "error" \in DOMAIN allOut.results.accounts[a]
               /\ allOut.results.accounts[a].error # "none"
        /\ \A a \in Range(allIn.account_ids) \ FailedAccounts :
               allOut.results.accounts[a].error = "none"
        /\ allOut.results.summary.accounts_checked
             = Cardinality(Range(allIn.account_ids))

\* check_account raised for the first of three accounts and returned an
\* error for the second; the third was checked and its alert is in the result
C16_Witness ==
    /\ allOut.returned
    /\ Len(allIn.account_ids) = 3
    /\ Cardinality(Range(allIn.account_ids)) = 3
    /\ allIn.world[allIn.account_ids[1]].raises
    /\ allIn.account_ids[2] \in FailedAccounts
    /\ ~allIn.world[allIn.account_ids[2]].raises
    /\ allIn.account_ids[3] \notin FailedAccounts
    /\ allOut.checked = allIn.account_ids
    /\ allOut.results.accounts[allIn.account_ids[1]] = ErrorOnly("raised")
    /\ Len(allOut.results.accounts[allIn.account_ids[3]].alerts) = 1
    /\ allOut.results.summary.status = "critical"

\* the campaigns of the account whose analysis raises
RaisingCampaigns ==
    {i \in 1..Len(monIn.campaigns) :
        analyze_campaign(monIn.campaigns[i]).judgment.raised}
\* the pass over the campaigns of the account was entered
PassEntered ==
    /\ monOut # NoMonOut
    /\ monIn.env.connected
    /\ monIn.env.managers = "ok"

\* C17: when the analysis of one campaign of the account raises, every other
\* active campaign is still judged, and is in the account result unless it
\* is under the noise floor.
C17_OtherCampaignsJudged ==
    (PassEntered /\ RaisingCampaigns # {})
        => /\ \A i \in 1..Len(monIn.campaigns) \ RaisingCampaigns :
                \E k \in 1..Len(monOut.analyzed) :
                    monOut.analyzed[k] = analyze_campaign(monIn.campaigns[i])
           /\ \A i \in 1..Len(monIn.campaigns) \ RaisingCampaigns :
                analyze_campaign(monIn.campaigns[i]).judgment.status
                    # "insufficient_data"
                => monIn.campaigns[i].id \in ListedIds(monOut.result, "campaigns")

\* the threads inside run_check_now
LoopsInCheck == {t \in Threads : InCheck(schedLoops[t])}

\* C18: whatever start() and stop() calls were made, no two threads are
\* inside run_check_now at the same time, be it for the periodic check or for
\* the daily report.
C18_ChecksNeverOverlap == Cardinality(LoopsInCheck) <= 1

\* the campaign is an advantage-plus shopping campaign
IsAsc(campaign) ==
    campaign.is_asc \/ campaign.smart_promotion_type = "ADVANTAGE_PLUS_SHOPPING"
\* the primary KPI the table gives for an objective
TableKpi(objective) ==
    CASE objective \in {"LINK_CLICKS", "POST_ENGAGEMENT", "OUTCOME_TRAFFIC",
                        "OUTCOME_ENGAGEMENT"} -> "cpf"
      [] objective = "CONVERSIONS" -> "cpa"
      [] objective \in {"PRODUCT_CATALOG_SALES", "OUTCOME_SALES"} -> "roas"
      [] objective \in {"REACH", "BRAND_AWARENESS"} -> "cpm"
      [] OTHER -> "spend"
\* the campaigns analyzed in the pass, by their place in the account
AnalyzedPlaces == IF monOut = NoMonOut THEN {} ELSE 1..Len(monOut.analyzed)

\* C19: the profile a campaign is judged with depends on its objective and
\* on its advantage-plus flag only.  With the flag it is the ASC profile
\* (primary KPI roas), whatever the objective; without it, the table entry of
\* the objective, or the DEFAULT profile (primary KPI spend, no thresholds)
\* for an objective that is not in the table.
C19_ClassifiedByFlagThenObjective ==
    /\ \A k \in AnalyzedPlaces :
         LET campaign == monIn.campaigns[k]
             profile == monOut.analyzed[k].type_config
         IN  /\ monOut.analyzed[k].id = campaign.id
             /\ IsAsc(campaign) =>
                  /\ profile = CAMPAIGN_TYPE_CONFIG("ASC")
                  /\ profile.primary_kpi = "roas"
                  /\ monOut.analyzed[k].objective = "ASC"
             /\ (~IsAsc(campaign) /\ campaign.objective \in ConfigNames) =>
                  /\ profile = CAMPAIGN_TYPE_CONFIG(campaign.objective)
                  /\ profile.primary_kpi = TableKpi(campaign.objective)
             /\ (~IsAsc(campaign) /\ campaign.objective \notin ConfigNames) =>
                  /\ profile.primary_kpi = "spend"
                  /\ profile.thresholds = NoThresholds
    /\ \A j, k \in AnalyzedPlaces :
         (/\ monIn.campaigns[j].objective = monIn.campaigns[k].objective
          /\ IsAsc(monIn.campaigns[j]) = IsAsc(monIn.campaigns[k]))
         => monOut.analyzed[j].type_config = monOut.analyzed[k].type_config

\* an advantage-plus campaign with the traffic objective was judged on its
\* roas with the ASC profile
C19_Witness ==
    /\ monOut # NoMonOut
    /\ Len(monOut.analyzed) = 1
    /\ monIn.campaigns[1].objective = "OUTCOME_TRAFFIC"
    /\ IsAsc(monIn.campaigns[1])
    /\ monOut.analyzed[1].type_config.primary_kpi = "roas"
    /\ monOut.analyzed[1].objective = "ASC"
    /\ monOut.analyzed[1].judgment.status = "critical"

\* the cpf target the judgment of a traffic campaign compares with: the
\* campaign's target, else the default of the target manager, else cpf_good
TargetCpfUsed(campaign) ==
    LET targets == IF campaign.own.manager
                   THEN get_campaign_targets(campaign.own, "traffic")
                   ELSE NoTargets
    IN  IF targets.target_cpf # NoVal THEN targets.target_cpf
        ELSE CpfThresholds.cpf_good
\* the CPF issues of a judgment that have the severity
CpfIssues(judgment, severity) ==
    {i \in 1..Len(judgment.issues) :
        /\ judgment.issues[i].message \in {"cpf_warning", "cpf_critical"}
        /\ judgment.issues[i].severity = severity}
\* the judgment compares today's cpf with the 7-day average
ComparesCpf(judgment) ==
    \E i \in 1..Len(judgment.comparisons) :
        /\ judgment.comparisons[i].metric = "CPF"
        /\ judgment.comparisons[i].comparison = "vs_7d"

\* C20: a cpf-primary campaign with today's spend at or over the noise floor
\* and today's cpf over its target but not over cpf_critical is judged with
\* exactly one CPF issue, of severity warning, and with a comparison of the
\* cpf with the 7-day average when that average is positive.
C20_CpfOverTargetWarns ==
    \A k \in AnalyzedPlaces :
        LET campaign_result == monOut.analyzed[k]
            cpf_today == PerfGet(PeriodGet(campaign_result.periods, "today"), "cpf")
            cpf_7d == PerfGet(PeriodGet(campaign_result.periods, "last_7d"), "cpf")
            target_cpf == TargetCpfUsed(monIn.campaigns[k])
        IN  (/\ campaign_result.type_config.primary_kpi = "cpf"
             /\ SpendToday(campaign_result) >= MIN_DAILY_SPEND
             /\ target_cpf # BadVal
             /\ cpf_today > target_cpf * 100
             /\ cpf_today <= CpfThresholds.cpf_critical * 100)
            => /\ Cardinality(CpfIssues(campaign_result.judgment, "warning")) = 1
               /\ CpfIssues(campaign_result.judgment, "critical") = {}
               /\ cpf_7d > 0 => ComparesCpf(campaign_result.judgment)

\* the roas target the judgment of a sales campaign compares with: the
\* campaign's target, else the default of the target manager, else roas_good
TargetRoasUsed(campaign) ==
    LET targets == IF campaign.own.manager
                   THEN get_campaign_targets(campaign.own, "sales")
                   ELSE NoTargets
    IN  IF targets.target_roas # NoVal THEN targets.target_roas
        ELSE RoasThresholds.roas_good
\* the ROAS issues of a judgment that have the severity
RoasIssues(judgment, severity) ==
    {i \in 1..Len(judgment.issues) :
        /\ judgment.issues[i].message \in {"roas_warning", "roas_critical"}
        /\ judgment.issues[i].severity = severity}
\* the judgment counts the roas of the day as a positive
RoasMet(judgment) ==
    \E i \in 1..Len(judgment.positives) : judgment.positives[i] = "roas_met"

\* C21: a roas-primary campaign with today's spend at or over the noise
\* floor is judged on every roas of the day, 0 included: under roas_critical
\* it gets a critical ROAS issue and the status critical with severity high,
\* from roas_critical up to roas_warning (and under the target) a warning
\* ROAS issue, and at or over the target a positive.
C21_RoasJudgedBelowTarget ==
    \A k \in AnalyzedPlaces :
        LET campaign_result == monOut.analyzed[k]
            judgment == campaign_result.judgment
            roas_today == PerfGet(PeriodGet(campaign_result.periods, "today"), "roas")
            target_roas == TargetRoasUsed(monIn.campaigns[k])
        IN  (/\ campaign_result.type_config.primary_kpi = "roas"
             /\ SpendToday(campaign_result) >= MIN_DAILY_SPEND
             /\ target_roas # BadVal)
            => /\ (roas_today < target_roas
                   /\ roas_today < RoasThresholds.roas_critical)
                  => /\ RoasIssues(judgment, "critical") # {}
                     /\ judgment.status = "critical"
                     /\ judgment.severity = "high"
               /\ (roas_today < target_roas
                   /\ roas_today >= RoasThresholds.roas_critical
                   /\ roas_today < RoasThresholds.roas_warning)
                  => RoasIssues(judgment, "warning") # {}
               /\ roas_today >= target_roas => RoasMet(judgment)

\* the record is the earlier one with nothing changed, or with the one patch
\* of mark_executed on a queue record that had not been patched yet
SameOrPatchedOnce(earlier, later) ==
    \/ later = earlier
    \/ /\ HasId(earlier)
       /\ earlier.executed_at = FALSE
       /\ earlier.status = "approved"
       /\ later.executed_at = TRUE
       /\ later = [earlier EXCEPT !.status = "executed",
                                  !.executed_at = TRUE,
                                  !.result = later.result]

\* C22: the history is append-only.  Every step of propose, approve, reject,
\* direct execution and clear_pending leaves the records already in the
\* history at their places, with their action payload; a record changes at
\* most by the patch that marks it executed (executed_at and result), and a
\* record that carries that patch never changes again.
C22_HistoryAppendOnly ==
    [][/\ Len(history') >= Len(history)
       /\ \A i \in 1..Len(history) :
            /\ SameOrPatchedOnce(history[i], history'[i])
            /\ history'[i].action = history[i].action]_vars

\* C22 witness: a record approved and marked executed is still first in the
\* history, unchanged, after a direct execution and a rejection were appended
\* behind it and the pending list was cleared.
C22_Witness ==
    /\ Len(history) = 3
    /\ HasId(history[1]) /\ history[1].status = "executed"
    /\ history[1].executed_at = TRUE
    /\ history[1].result = Res(TRUE, TRUE, "budget_changed")
    /\ ~HasId(history[2])
    /\ HasId(history[3]) /\ history[3].status = "rejected"
    /\ lastRet.op = "clear_pending"

\* the judgment holds a CVR issue or a CVR comparison
JudgedOnCvr(judgment) ==
    \/ \E i \in 1..Len(judgment.issues) : judgment.issues[i].message = "cvr_drop"
    \/ \E i \in 1..Len(judgment.comparisons) :
          judgment.comparisons[i].metric = "CVR"

\* C23: the judgment of a reach or brand-awareness campaign never holds a CVR
\* issue or a CVR comparison, whatever the CVR did since yesterday, as is the
\* case for the traffic campaigns.
C23_ReachIgnoresConversions ==
    \A k \in AnalyzedPlaces :
        monIn.campaigns[k].objective \in
            {"REACH", "BRAND_AWARENESS", "OUTCOME_TRAFFIC"}
        /\ ~IsAsc(monIn.campaigns[k])
        => ~JudgedOnCvr(monOut.analyzed[k].judgment)

\* the rule of _determine_effect on one metric: both values are there and
\* the relative change is under (over) the percentage
Dropped(before, after, pct) ==
    before > 0 /\ after > 0 /\ (after - before) * 100 < -pct * before
Rose(before, after, pct) ==
    before > 0 /\ after > 0 /\ (after - before) * 100 > pct * before

ReachedBaselineFetch ==
    /\ exOut # NoOut
    /\ mode # "notify_only"
    /\ exIn.action.type \in {"budget_change", "budget_increase", "budget_decrease"}
    /\ safety_check(exIn.action).passed
    /\ exIn.action.campaign_id # "none"
    /\ exIn.action.new_budget > 0
    /\ exIn.env.connected
    /\ exIn.env.managers = "ok"

\* C25: when the baseline fetch of _execute_budget_change fails, the insights
\* call raising or returning nothing, update_campaign_budget is still invoked
\* once with the campaign and the requested budget, and the result is the
\* outcome of that call: success when it returned True, a failure when it
\* returned False or raised.
C25_BaselineFailureDoesNotBlock ==
    (ReachedBaselineFetch /\ exIn.env.insights \in {"empty", "raise"})
    => /\ exOut.calls = <<Call("update_campaign_budget", exIn.action.campaign_id,
                               exIn.action.new_budget)>>
       /\ exOut.ret = CASE exIn.env.update = "true" ->
                             Res(TRUE, TRUE, "budget_changed")
                        [] exIn.env.update = "false" ->
                             Res(FALSE, FALSE, "update_failed")
                        [] OTHER -> Res(FALSE, FALSE, "error")

\* C25 witness: the insights call raised and the budget_decrease to 15000 was
\* carried out all the same.
C25_Witness ==
    /\ exOut # NoOut
    /\ exIn.action = Act("budget_decrease", "c1", NoVal, 15000, "none")
    /\ exIn.env = Env(TRUE, "ok", "raise", "true")
    /\ mode = "auto_execute"
    /\ exOut.calls = <<Call("update_campaign_budget", "c1", 15000)>>
    /\ exOut.ret.success

\* the spends put in the place of yesterday's and of the 7-day average:
\* none, under and over the noise floor, and far over today's
OtherSpends == {0, 500, 4000, 20000}
\* the metrics of a period with another spend and nothing else changed
WithSpend(perf, spend) ==
    [key \in DOMAIN perf \cup {"spend"} |->
        IF key = "spend" THEN spend ELSE perf[key]]
\* the targets _analyze_campaign handed to the judgment of the campaign
TargetsUsed(campaign, type_config) ==
    IF campaign.own.manager
    THEN get_campaign_targets(campaign.own,
             IF ConfigFlag(type_config, "is_traffic_campaign")
             THEN "traffic" ELSE "sales")
    ELSE NoTargets
\* two judgments with the same status, severity and issue list
SameVerdict(one, other) ==
    /\ one.raised = other.raised
    /\ one.status = other.status
    /\ one.severity = other.severity
    /\ one.issues = other.issues
\* the places of the spend comparisons in a judgment
SpendComparisons(judgment) ==
    {i \in 1..Len(judgment.comparisons) : judgment.comparisons[i].metric = "spend"}

\* C26: the spend comparisons never reach the verdict.  The judgment of
\* every analyzed campaign keeps its status, severity and issue list when
\* yesterday's spend and the 7-day average spend are replaced by any other
\* values and every other input stays as it was.
C26_SpendNeverJudged ==
    \A k \in AnalyzedPlaces :
        \A spend_yesterday, spend_7d \in OtherSpends :
            SameVerdict(
                monOut.analyzed[k].judgment,
                make_integrated_judgment(
                    monOut.analyzed[k].type_config,
                    [monOut.analyzed[k].periods EXCEPT
                        !.yesterday = WithSpend(@, spend_yesterday),
                        !.last_7d = WithSpend(@, spend_7d)],
                    TargetsUsed(monIn.campaigns[k],
                                monOut.analyzed[k].type_config)))

\* C26 witness: a campaign whose spend fell from 4000 yesterday to 1000
\* today, and is a third of the 7-day average, was judged normal with no
\* issue; both spend comparisons are in the judgment.
C26_Witness ==
    /\ monOut # NoMonOut
    /\ Len(monOut.analyzed) = 1
    /\ LET judgment == monOut.analyzed[1].judgment
       IN  /\ judgment.status = "normal"
           /\ judgment.issues = <<>>
           /\ Cardinality(SpendComparisons(judgment)) = 2
           /\ \E i \in SpendComparisons(judgment) :
                 /\ judgment.comparisons[i].comparison = "vs_yesterday"
                 /\ judgment.comparisons[i].today = 1000
                 /\ judgment.comparisons[i].ref = 4000
           /\ \E i \in SpendComparisons(judgment) :
                 /\ judgment.comparisons[i].comparison = "vs_7d"
                 /\ judgment.comparisons[i].ref = 3000

\* the ids of the queue records the two files hold
StoredIds ==
    {qFiles.queue_file[k].id : k \in 1..Len(qFiles.queue_file)}
    \cup {r.id : r \in QueueRecords(qFiles.history_file)}

\* C27: with two executor instances on the same storage and their calls
\* taken one at a time, every action proposed so far is still in one of the
\* two files, and no action is approved after it was already approved or
\* rejected, through whichever instance.
C27_SharedStorageSerialized ==
    /\ \A id \in ProposedIds : id \in StoredIds
    /\ \A k, l \in 1..Len(qLog) :
          (k < l /\ qLog[k].id = qLog[l].id) => qLog[l].op # "approve"

WasApproved(id) == "approved" \in Range(trail[id])
\* the ids of the records of a list of queue records
IdsOf(seq) == {r.id : r \in QueueRecords(seq)}

\* C28: on one executor an action is executed at most once.  An
\* approve_action(id) for an id that was approved before returns the
\* not-found failure, invokes no ad-platform call and leaves both lists as
\* they were; no id has more than one ad-platform call, and no id is in the
\* pending list and in the history at the same time.
C28_ExecutedAtMostOnce ==
    [][/\ \A id \in 1..MaxProposals :
            /\ (WasApproved(id) /\ lastRet'.op = "approve" /\ lastRet'.id = id)
               => /\ lastRet'.ret = Res(FALSE, FALSE, "not_found")
                  /\ calls' = calls
                  /\ pending' = pending
                  /\ history' = history
            /\ Cardinality({k \in 1..Len(calls') : calls'[k].forId = id}) <= 1
       /\ IdsOf(pending') \cap IdsOf(history') = {}]_vars

\* C28 witness: action 1 was approved and executed with one ad-platform call,
\* and a second approve_action(1) has just returned not-found while another
\* action waits in the pending list.
C28_Witness ==
    /\ lastRet = Ret("approve", 1, NoVal, Res(FALSE, FALSE, "not_found"))
    /\ trail[1] = <<"pending", "approved", "executed">>
    /\ Cardinality(CallsFor(1)) = 1
    /\ IdsOf(pending) = {2}
    /\ IdsOf(history) = {1}

\* C29: a queue record has the status executed only if an ad-platform
\* mutation call was invoked for its action; an approved action that was
\* skipped in notify_only mode or refused by the safety check is not shown
\* as executed.
C29_ExecutedMeansInvoked ==
    \A r \in QueueRecords(history) :
        r.status = "executed" => CallsFor(r.id) # {}

\* C30: in one running loop, run_daily_report is called only inside the
\* five-minute window that starts at the configured time, at most once on a
\* calendar day, and not on a day whose report was skipped because the daily
\* reports were switched off; the periodic check runs in the first iteration,
\* and later only when at least check_interval_minutes have passed since the
\* last check that returned.
C30_ReportOncePerDayCheckOnInterval ==
    [][/\ (clkLoop.pc = "daily" /\ clkLoop'.pc = "report")
          => /\ in_report_window(clkSchedule, clkLoop.now)
             /\ clkSeen.report_day # DateOf(clkLoop.now)
             /\ clkSeen.skip_day # DateOf(clkLoop.now)
       /\ (clkLoop.pc = "periodic" /\ clkSeen.iteration = 1)
          => clkLoop'.pc = "check"
       /\ (clkLoop.pc = "periodic" /\ clkLoop'.pc = "check")
          => \/ clkSeen.check_ok = NoVal
             \/ clkLoop.now - clkSeen.check_ok
                   >= clkSchedule.check_interval_minutes]_vars

====
